---- MODULE Spec2Model ----
(***************************************************************************)
(* A model of the JVM metadata aggregator: the artifact record JvmData     *)
(* and its identity (src/jvm/mod.rs), the per-vendor accumulator           *)
(* (src/jvm/vendor/mod.rs), the batched upsert of JvmRepository::insert    *)
(* (src/db/jvm_repository.rs) and the vendor scheduler Fetch::run          *)
(* (src/cli/fetch.rs).                                                     *)
(*                                                                         *)
(* Three specifications share the module:                                  *)
(*   Spec      - a sequence of JvmRepository::insert calls on one store    *)
(*   SpecAcc   - a sequence of insertions into one HashSet<JvmData>        *)
(*   SpecFetch - one run of Fetch::run with its worker threads             *)
(*                                                                         *)
(* Further specifications cover the HTTP listers (src/github.rs,           *)
(* src/jvm/vendor/temurin.rs), the mapping of release assets to records    *)
(* (src/jvm/vendor/corretto.rs, liberica.rs, zulu.rs), the export query    *)
(* and the pure functions of JvmData and of the vendor module; each is     *)
(* introduced where its actions are defined.                               *)
(***************************************************************************)
EXTENDS Integers, Sequences, FiniteSets, TLC

VARIABLES
    store,      \* table JVM: unique key -> row (15 columns + created_at, modified_at)
    clock,      \* the database clock (CURRENT_TIMESTAMP of the next transaction)
    last,       \* history of the last insert call: its argument, the store before, its result
    firstSeen,  \* history: unique key -> time of the transaction that first stored it
    acc,        \* the accumulator, a HashSet<JvmData>
    history,    \* history: the records offered to the accumulator, in order
    mainPc,     \* Fetch::run: "running", "returned", or "exited" (the process died)
    selection,  \* Fetch.vendors, the names given on the command line
    conf,       \* the configuration every worker loads (json.path, sqlite.path present?)
    tasks,      \* the JoinHandles pushed by Fetch::run, in spawn order
    joined,     \* number of tasks Fetch::run has joined
    wpc,        \* per vendor: the position of its worker thread
    wacc,       \* per vendor: number of records its fetch has accumulated so far
    wdata,      \* per vendor: the records vendor.fetch() returned to the worker
    fetchErr,   \* history: the vendors whose fetch_data returned an error
    logs,       \* error! lines written: <<vendor, step>>
    jsonFiles,  \* vendor -> records written to <path><vendor>.json
    sqliteDb,   \* rows committed to the SQLite table by store_sqlite
    ghServer,   \* api.github.com: page -> the releases and the link header it answers
    ghPc,       \* list_releases: "start", "loop", "done" (Ok) or "error" (Err)
    ghHeaders,  \* list_releases: `headers`, the headers of the last response
    ghReleases, \* list_releases: `releases`
    ghFetched,  \* history: the pages list_releases has requested, in order
    tmPc,       \* Temurin::fetch_data: "start", "paging", "done" (Ok) or "error" (Err)
    tmLoop,     \* per feature release: its page loop is "idle", "loop" or "done"
    tmPage,     \* per feature release: `page`
    tmData,     \* per feature release: `data`
    tmLog,      \* history, per feature release: the kind of each response, in order
    zuPc,       \* Zulu::fetch_data: "idle", "paging", "mapping" or "done" (Ok)
    zuPage,     \* Zulu::fetch_data: `page`
    zuPackages, \* Zulu::fetch_data: `all_packages`
    zuLog,      \* history: the kind of each response to Zulu's page requests, in order
    mrInput,    \* the vendor and the release handed to the vendor's mapping
    mrPc,       \* the mapping: "ready" or "done"
    mrOut,      \* history: the records the mapping produced, each with its asset
    call        \* the last call of a pure function or query: its arguments and result

repoVars == <<store, clock, last, firstSeen>>
accVars == <<acc, history>>
fetchVars ==
    <<mainPc, selection, conf, tasks, joined, wpc, wacc, wdata, fetchErr, logs,
      jsonFiles, sqliteDb>>
ghVars == <<ghServer, ghPc, ghHeaders, ghReleases, ghFetched>>
zuVars == <<zuPc, zuPage, zuPackages, zuLog>>
\* the variables of the vendors that page through an API
tmVars == <<tmPc, tmLoop, tmPage, tmData, tmLog, zuVars>>
mrVars == <<mrInput, mrPc, mrOut>>
\* the variables of the listers, the mappings and the pure calls
restVars == <<ghVars, tmVars, mrVars, call>>
vars == <<repoVars, accVars, fetchVars, restVars>>

(***************************************************************************)
(* Bounds of the model.                                                    *)
(***************************************************************************)
\* number of JvmRepository::insert calls in one behaviour
MaxCalls == 2
\* largest HashSet<JvmData> handed to one insert call
MaxBatch == 3
\* rows per statement; the source sets 1000, scaled down so that one call
\* of MaxBatch records runs more than one statement
BATCH_SIZE == 2
\* number of insertions into the accumulator in one behaviour
MaxInserts == 3
\* number of records a vendor's fetch_data can accumulate
MaxAssets == 1

(***************************************************************************)
(* Option<T>: None is the empty sequence, Some(v) the sequence <<v>>.      *)
(* A NULL column is None.                                                  *)
(***************************************************************************)
None == <<>>
Some(v) == <<v>>
IsNone(o) == Len(o) = 0

(***************************************************************************)
(* JvmData, src/jvm/mod.rs:9-25.                                           *)
(***************************************************************************)
Base ==
    [architecture |-> "x86_64", checksum |-> None, checksum_url |-> None,
     features |-> None, file_type |-> "tar.gz", filename |-> "jdk-21_linux-x64.tar.gz",
     image_type |-> "jdk", java_version |-> "21", jvm_impl |-> "hotspot",
     os |-> "linux", release_type |-> "ga", size |-> None,
     url |-> "https://cdn.example/jdk-21_linux-x64.tar.gz",
     vendor |-> "zulu", version |-> "21.0.0"]

\* a record with every optional column present, under a second unique key
Full ==
    [Base EXCEPT !.version = "22.0.0", !.java_version = "22",
                 !.filename = "jdk-22_linux-x64.tar.gz",
                 !.url = "https://cdn.example/jdk-22_linux-x64.tar.gz",
                 !.checksum = Some("sha256:aa"),
                 !.checksum_url = Some("https://cdn.example/jdk-22.sha256"),
                 !.features = Some(<<"javafx", "musl">>),
                 !.size = Some(100)]

\* records under Base's unique key: an optional column appears (checksum,
\* features), a required non-key column changes (url: another identity in the
\* accumulator, the same row in the table)
BaseChecksum == [Base EXCEPT !.checksum = Some("sha256:aa")]
BaseFeatures == [Base EXCEPT !.features = Some(<<"javafx", "musl">>)]
BaseMirror == [Base EXCEPT !.url = "https://mirror.example/jdk-21_linux-x64.tar.gz"]

\* records under Full's unique key: an optional column changes, or disappears
FullChecksum == [Full EXCEPT !.checksum = Some("sha256:bb")]
FullNoSize == [Full EXCEPT !.size = None]

Inputs == {Base, BaseChecksum, BaseFeatures, BaseMirror, Full, FullChecksum, FullNoSize}

(***************************************************************************)
(* Identity of a record in the accumulator: impl PartialEq / Hash for      *)
(* JvmData compare and hash the url alone.                                 *)
(***************************************************************************)
JvmDataEq(a, b) == a.url = b.url

(***************************************************************************)
(* The conflict target of the upsert, the columns of the unique index.     *)
(***************************************************************************)
ConflictKey(d) ==
    <<d.vendor, d.version, d.os, d.architecture, d.image_type, d.file_type>>

(***************************************************************************)
(* Vec<String>::join(","), by what it does.                                *)
(***************************************************************************)
RECURSIVE Join(_)
Join(f) ==
    IF Len(f) = 0 THEN ""
    ELSE IF Len(f) = 1 THEN f[1]
    ELSE f[1] \o "," \o Join(Tail(f))

(***************************************************************************)
(* map_workaround: JvmData -> DbJvmData; features become one joined text.  *)
(***************************************************************************)
DbJvmData(item) ==
    [item EXCEPT !.features = IF IsNone(item.features) THEN None
                              ELSE Some(Join(item.features[1]))]

(***************************************************************************)
(* SQL comparison `a != b` in three-valued logic: "T", "F", or "U"         *)
(* (unknown) when either side is NULL.  Operands are Option values.        *)
(***************************************************************************)
SqlNeq(a, b) ==
    IF IsNone(a) \/ IsNone(b) THEN "U"
    ELSE IF a # b THEN "T" ELSE "F"

\* SQL OR over a set of truth values
SqlOr(vals) ==
    IF "T" \in vals THEN "T"
    ELSE IF "U" \in vals THEN "U" ELSE "F"

\* the columns String (NOT NULL in the parameters) and Option<_> of DbJvmData
RequiredColumns ==
    {"architecture", "file_type", "filename", "image_type", "java_version",
     "jvm_impl", "os", "release_type", "url", "vendor", "version"}
OptionalColumns == {"checksum", "checksum_url", "features", "size"}
Columns == RequiredColumns \cup OptionalColumns

\* a row's 15 data columns, without its timestamps
Data(row) == [c \in Columns |-> row[c]]

(***************************************************************************)
(* The WHERE clause of DO UPDATE: the update happens only when the         *)
(* disjunction of the 15 comparisons is true (not false, not unknown).     *)
(***************************************************************************)
UpdateWhere_Unguarded(excluded, row) == TRUE

UpdateWhere(excluded, row) ==
    SqlOr({SqlNeq(Some(excluded[c]), Some(row[c])) : c \in RequiredColumns}
          \cup {SqlNeq(excluded[c], row[c]) : c \in OptionalColumns}) = "T"

(***************************************************************************)
(* Column default of created_at and modified_at for a row the statement    *)
(* inserts: the INSERT lists neither column.  The table definition is not  *)
(* part of the sources; the default is the transaction's timestamp.        *)
(***************************************************************************)
ColumnDefault(now) == now

\* the row an INSERT without conflict stores
InsertRow(d, now) ==
    [c \in Columns \cup {"created_at", "modified_at"} |->
        IF c \in Columns THEN d[c] ELSE ColumnDefault(now)]

(***************************************************************************)
(* DO UPDATE SET: the 15 data columns from the proposed row, modified_at   *)
(* = CURRENT_TIMESTAMP; created_at is not in the SET list.                 *)
(***************************************************************************)
DoUpdateSet_TouchCreated(row, excluded, now) ==
    [c \in DOMAIN row |-> IF c \in Columns THEN excluded[c] ELSE now]

DoUpdateSet(row, excluded, now) ==
    [c \in DOMAIN row |->
        IF c \in Columns THEN excluded[c]
        ELSE IF c = "modified_at" THEN now
        ELSE row[c]]

\* the table with the row of key k set to row
Put(s, k, row) == [x \in DOMAIN s \cup {k} |-> IF x = k THEN row ELSE s[x]]

(***************************************************************************)
(* One INSERT ... VALUES (chunk) ON CONFLICT (key) DO UPDATE ... WHERE.    *)
(* The proposed rows are processed in order.  A proposed row whose key is  *)
(* free is inserted; one that conflicts with a row this same statement     *)
(* inserted or updated makes the statement fail (cardinality violation:    *)
(* "command cannot affect row a second time"); otherwise the stored row is *)
(* updated when the WHERE clause is true.  The result is the number of     *)
(* rows inserted or updated, as the server reports it to tx.execute.       *)
(***************************************************************************)
RECURSIVE ExecRows(_, _, _, _, _, _)
ExecRows(s, chunk, i, now, touched, count) ==
    IF i > Len(chunk) THEN [ok |-> TRUE, store |-> s, count |-> count]
    ELSE LET d == chunk[i]
             k == ConflictKey(d)
         IN  IF k \notin DOMAIN s
             THEN ExecRows(Put(s, k, InsertRow(d, now)), chunk, i + 1, now,
                           touched \cup {k}, count + 1)
             ELSE IF k \in touched
             THEN [ok |-> FALSE, store |-> s, count |-> count]
             ELSE IF UpdateWhere(d, s[k])
             THEN ExecRows(Put(s, k, DoUpdateSet(s[k], d, now)), chunk, i + 1, now,
                           touched \cup {k}, count + 1)
             ELSE ExecRows(s, chunk, i + 1, now, touched, count)

Execute(s, chunk, now) == ExecRows(s, chunk, 1, now, {}, 0)

(***************************************************************************)
(* JvmRepository::insert.                                                  *)
(***************************************************************************)
Min(a, b) == IF a < b THEN a ELSE b

\* slice::chunks(BATCH_SIZE): consecutive chunks, the last one may be shorter
Chunks(v) ==
    [i \in 1..((Len(v) + BATCH_SIZE - 1) \div BATCH_SIZE) |->
        SubSeq(v, (i - 1) * BATCH_SIZE + 1, Min(i * BATCH_SIZE, Len(v)))]

\* the orders in which iterating a HashSet can yield its elements
Orders(set) ==
    {v \in [1..Cardinality(set) -> set] : \A x \in set : \E i \in DOMAIN v : v[i] = x}

\* map_workaround over the iteration
MapWorkaround(v) == [i \in DOMAIN v |-> DbJvmData(v[i])]

\* `result += tx.execute(..)?`
Accumulate_Overwrite(result, n) == n

Accumulate(result, n) == result + n

\* number of rows of table b that table a does not hold as they are
RowsChanged(a, b) ==
    Cardinality({k \in DOMAIN b : k \notin DOMAIN a \/ a[k] # b[k]})

(***************************************************************************)
(* The loop over the chunks inside the transaction.  failStmt is the index *)
(* of the statement the server or the connection fails (0: none); a        *)
(* statement also fails by itself on a cardinality violation.  `changed`   *)
(* is history: the rows each statement inserted or modified, counted on    *)
(* the table itself.                                                       *)
(***************************************************************************)
RECURSIVE TxLoop(_, _, _, _, _, _, _)
TxLoop(s, chunks, i, now, failStmt, result, changed) ==
    IF i > Len(chunks)
    THEN [ok |-> TRUE, store |-> s, result |-> result, changed |-> changed]
    ELSE IF failStmt = i
    THEN [ok |-> FALSE, store |-> s, result |-> result, changed |-> changed]
    ELSE LET r == Execute(s, chunks[i], now)
         IN  IF ~r.ok
             THEN [ok |-> FALSE, store |-> s, result |-> result, changed |-> changed]
             ELSE TxLoop(r.store, chunks, i + 1, now, failStmt,
                         Accumulate(result, r.count),
                         changed + RowsChanged(s, r.store))

(***************************************************************************)
(* The transaction is dropped without commit when `?` returns early: the   *)
(* table is what it was when the transaction began.                        *)
(***************************************************************************)
Rollback_Keep(pre, partial) == partial

Rollback(pre, partial) == pre

Ok(n) == [ok |-> TRUE, value |-> n]
Err == [ok |-> FALSE, value |-> 0]

\* where a call that got its transaction can fail for reasons outside the batch
Failures(nChunks) ==
    {[at |-> a, n |-> 0] : a \in {"none", "commit"}}
    \cup {[at |-> "execute", n |-> i] : i \in 1..nChunks}

(***************************************************************************)
(* The call from the first chunk on, on table pre: the table after it, the *)
(* Result<u64> returned.  v is the vector map_workaround built.            *)
(***************************************************************************)
InsertCall(pre, v, now, fail) ==
    LET r == TxLoop(pre, Chunks(v), 1, now,
                    IF fail.at = "execute" THEN fail.n ELSE 0, 0, 0)
    IN  IF r.ok /\ fail.at # "commit"
        THEN [store |-> r.store, result |-> Ok(r.result), changed |-> r.changed,
              undone |-> 0]
        ELSE [store |-> Rollback(pre, r.store), result |-> Err, changed |-> 0,
              undone |-> RowsChanged(pre, r.store)]

\* the sets a caller can pass: HashSet<JvmData> holds no two records that are Eq
Batches ==
    {b \in SUBSET Inputs :
        /\ Cardinality(b) <= MaxBatch
        /\ \A x, y \in b : JvmDataEq(x, y) => x = y}

EmptyTable == [k \in {} |-> 0]

\* the history of a call: `changed` the rows its statements inserted or modified,
\* `undone` the rows changed by the statements of a call that then failed
Called(jvm_data, r) ==
    [called |-> TRUE, batch |-> jvm_data, pre |-> store, now |-> clock,
     result |-> r.result, changed |-> r.changed, undone |-> r.undone]

Insert(jvm_data) ==
    /\ clock <= MaxCalls
    /\ \/ \* self.pool.get()? or conn.transaction()? returns the error
          /\ store' = store
          /\ last' = Called(jvm_data, [result |-> Err, changed |-> 0, undone |-> 0])
          /\ firstSeen' = firstSeen
       \/ \E v \in Orders(jvm_data) :
            \E fail \in Failures(Len(Chunks(v))) :
                LET r == InsertCall(store, MapWorkaround(v), clock, fail)
                IN  /\ store' = r.store
                    /\ last' = Called(jvm_data, r)
                    /\ firstSeen' =
                          [k \in DOMAIN firstSeen \cup DOMAIN r.store |->
                              IF k \in DOMAIN firstSeen THEN firstSeen[k] ELSE clock]
    /\ clock' = clock + 1
    /\ UNCHANGED <<accVars, fetchVars, restVars>>

(***************************************************************************)
(* Initial states.                                                         *)
(***************************************************************************)
InitRepo ==
    /\ store = EmptyTable
    /\ clock = 1
    /\ last = [called |-> FALSE, batch |-> {}, pre |-> EmptyTable, now |-> 0,
               result |-> Ok(0), changed |-> 0, undone |-> 0]
    /\ firstSeen = EmptyTable

InitAcc ==
    /\ acc = {}
    /\ history = <<>>

\* names of registered vendors (three of the registry)
VendorNames == {"corretto", "temurin", "zulu"}

InitFetchIdle ==
    /\ mainPc = "running"
    /\ selection = {}
    /\ conf = [json |-> FALSE, sqlite |-> FALSE]
    /\ tasks = <<>>
    /\ joined = 0
    /\ wpc = [v \in VendorNames |-> "unborn"]
    /\ wacc = [v \in VendorNames |-> 0]
    /\ wdata = [v \in VendorNames |-> {}]
    /\ fetchErr = {}
    /\ logs = {}
    /\ jsonFiles = [v \in {} |-> {}]
    /\ sqliteDb = {}

\* before list_releases is called: no server, nothing requested
InitGithubIdle ==
    /\ ghServer = <<>>
    /\ ghPc = "start"
    /\ ghHeaders = [link |-> None]
    /\ ghReleases = <<>>
    /\ ghFetched = <<>>

\* Zulu::fetch_data is not called
InitZuluIdle ==
    /\ zuPc = "idle"
    /\ zuPage = 1
    /\ zuPackages = <<>>
    /\ zuLog = <<>>

\* before Temurin::fetch_data is called
InitTemurinIdle ==
    /\ tmPc = "start"
    /\ tmLoop = <<>>
    /\ tmPage = <<>>
    /\ tmData = <<>>
    /\ tmLog = <<>>
    /\ InitZuluIdle

\* no release handed to a vendor's mapping
InitMapIdle ==
    /\ mrInput = [vendor |-> "", assets |-> <<>>, sha1sums |-> TRUE, prerelease |-> FALSE]
    /\ mrPc = "done"
    /\ mrOut = <<>>

\* no pure function or query called
InitCallIdle == call = [op |-> "none"]

InitRestIdle == InitGithubIdle /\ InitTemurinIdle /\ InitMapIdle /\ InitCallIdle

Init == InitRepo /\ InitAcc /\ InitFetchIdle /\ InitRestIdle

Next == \E jvm_data \in Batches : Insert(jvm_data)

Spec == Init /\ [][Next]_vars

(***************************************************************************)
(* Properties of JvmRepository::insert (specification Spec).               *)
(***************************************************************************)
\* the unique keys of a set of records
KeysOf(batch) == {ConflictKey(d) : d \in batch}

\* every record of the batch is, column for column, the row table t holds under its key
AllStored(batch, t) ==
    \A d \in batch :
        /\ ConflictKey(d) \in DOMAIN t
        /\ Data(t[ConflictKey(d)]) = DbJvmData(d)

\* no two records of the batch share a unique key
DistinctKeys(batch) == Cardinality(KeysOf(batch)) = Cardinality(batch)

\* C1: an insert call whose batch holds only records equal, column for column,
\* to the rows already stored under their keys changes no row (no modified_at
\* either) and, when it succeeds, returns 0; rows with absent optional columns
\* included.
C1_IdenticalBatchIsNoOp ==
    (last.called /\ AllStored(last.batch, last.pre)) =>
        /\ store = last.pre
        /\ last.result.ok => last.result.value = 0

\* C1 witness: a successful call repeated two stored records, one of them with
\* every optional column absent, and returned 0.
C1_Witness ==
    /\ last.called /\ last.result = Ok(0)
    /\ Cardinality(last.batch) >= 2
    /\ AllStored(last.batch, last.pre)
    /\ \E d \in last.batch : \A c \in OptionalColumns : IsNone(d[c])
    /\ \E d \in last.batch : \A c \in OptionalColumns : ~IsNone(d[c])

\* C2 (as claimed): on a key conflict the stored row takes the incoming record's
\* columns and a refreshed modified_at if and only if some column of the
\* incoming record differs from the stored row, a change between an absent and
\* a present value included; every other row is left as it was.
C2_UpdateIffDiffers ==
    (last.called /\ last.result.ok /\ DistinctKeys(last.batch)) =>
        \A k \in DOMAIN last.pre :
            LET hits == {d \in last.batch : ConflictKey(d) = k}
            IN  IF \E d \in hits : DbJvmData(d) # Data(last.pre[k])
                THEN \A d \in hits :
                        /\ Data(store[k]) = DbJvmData(d)
                        /\ store[k].modified_at = last.now
                ELSE store[k] = last.pre[k]

\* C5: a call that returns an error leaves the table exactly as it was before
\* the call, whichever statement or the commit failed.
C5_FailedCallChangesNothing ==
    (last.called /\ ~last.result.ok) => store = last.pre

\* C5 witness: a call failed after its earlier statements had changed rows, and
\* the table is the one from before the call.
C5_Witness ==
    /\ last.called /\ ~last.result.ok
    /\ last.undone > 0
    /\ DOMAIN last.pre # {}
    /\ store = last.pre

\* C6: a successful call returns the number of rows its statements inserted
\* plus the number of stored rows they modified, summed over the statements;
\* n records with n new keys return n, rows the diff guard leaves alone are not
\* counted.
C6_ResultCountsChangedRows ==
    (last.called /\ last.result.ok) =>
        /\ last.result.value = last.changed
        /\ DistinctKeys(last.batch) =>
              last.result.value = RowsChanged(last.pre, store)
        /\ (DistinctKeys(last.batch) /\ KeysOf(last.batch) \cap DOMAIN last.pre = {}) =>
              last.result.value = Cardinality(last.batch)

\* C6 witness: a successful call of more than one statement counted some of its
\* records and left at least one stored row uncounted.
C6_Witness ==
    /\ last.called /\ last.result.ok
    /\ Cardinality(last.batch) > BATCH_SIZE
    /\ last.result.value >= 2
    /\ last.result.value < Cardinality(last.batch)

\* C7: every row that was ever stored is still stored, with the created_at of
\* the transaction that first inserted it; no call deletes a row or changes a
\* created_at.
C7_RowsStayCreatedAtFixed ==
    /\ \A k \in DOMAIN firstSeen :
          k \in DOMAIN store /\ store[k].created_at = firstSeen[k]
    /\ last.called =>
          \A k \in DOMAIN last.pre :
              k \in DOMAIN store /\ store[k].created_at = last.pre[k].created_at

\* C7 witness: a stored row was updated on conflict by a later call.
C7_Witness ==
    /\ last.called /\ last.result.ok
    /\ \E k \in DOMAIN last.pre :
          /\ store[k].modified_at = last.now
          /\ store[k].created_at < last.now

(***************************************************************************)
(* The accumulator: the HashSet<JvmData> that Vendor::fetch creates and    *)
(* fetch_data fills.                                                       *)
(***************************************************************************)
\* HashSet::insert: a value Eq to one already held is dropped, the held one stays
HashSetInsert_Replace(set, r) == {x \in set : ~JvmDataEq(x, r)} \cup {r}

HashSetInsert(set, r) ==
    IF \E x \in set : JvmDataEq(x, r) THEN set ELSE set \cup {r}

\* HashSet::extend(Vec<JvmData>): insert each record, in the vector's order
RECURSIVE HashSetExtend(_, _)
HashSetExtend(set, data) ==
    IF Len(data) = 0 THEN set
    ELSE HashSetExtend(HashSetInsert(set, Head(data)), Tail(data))

\* the vectors a scraper hands to extend
Vectors == UNION {[1..n -> Inputs] : n \in 1..2}

\* jvm_data.extend(data) inside fetch_data
Extend(data) ==
    /\ Len(history) + Len(data) <= MaxInserts
    /\ acc' = HashSetExtend(acc, data)
    /\ history' = history \o data
    /\ UNCHANGED <<repoVars, fetchVars, restVars>>

NextAcc == \E data \in Vectors : Extend(data)

SpecAcc == Init /\ [][NextAcc]_vars

(***************************************************************************)
(* Properties of the accumulator (specification SpecAcc).                  *)
(***************************************************************************)
\* C3 (as claimed): two records are duplicates in the accumulator exactly when
\* they conflict on the unique key of the upsert.
C3_SameIdentity ==
    \A i, j \in DOMAIN history :
        JvmDataEq(history[i], history[j])
            <=> ConflictKey(history[i]) = ConflictKey(history[j])

\* the first record offered with the identity of r
FirstOf(r) ==
    history[CHOOSE i \in DOMAIN history :
                /\ JvmDataEq(history[i], r)
                /\ \A j \in 1..(i - 1) : ~JvmDataEq(history[j], r)]

\* C4: the accumulator holds at most one record per identity (JvmData's Eq),
\* and for every identity offered it holds the first record offered with it:
\* inserting a record Eq to one already held changes nothing.
C4_FirstWriterWins ==
    /\ \A x, y \in acc : JvmDataEq(x, y) => x = y
    /\ acc = {FirstOf(history[i]) : i \in DOMAIN history}

\* C4 witness: a record was offered whose identity was already held by a
\* record with other fields, and the accumulator still holds the earlier one.
C4_Witness ==
    \E i, j \in DOMAIN history :
        /\ i < j
        /\ JvmDataEq(history[i], history[j])
        /\ history[i] # history[j]
        /\ history[i] \in acc
        /\ history[j] \notin acc

(***************************************************************************)
(* Fetch::run: one thread per selected vendor, then a join of every        *)
(* thread.                                                                 *)
(***************************************************************************)
\* the vendor lists a command line can give (empty: all vendors)
Selections == {{}, {"temurin"}, {"corretto", "zulu"}, {"zulu", "nosuch"}}

\* Fetch::get_vendors: the registered vendors whose name is selected
GetVendors == {v \in VendorNames : selection = {} \/ v \in selection}

\* the vendors whose thread has been spawned
Spawned == {tasks[i] : i \in DOMAIN tasks}

\* the records vendor v has accumulated after n insertions
Records(v, n) == {<<v, i>> : i \in 1..n}

InitFetch ==
    /\ mainPc = "running"
    /\ selection \in Selections
    /\ conf \in [json : BOOLEAN, sqlite : BOOLEAN]
    /\ tasks = <<>>
    /\ joined = 0
    /\ wpc = [v \in VendorNames |-> "unborn"]
    /\ wacc = [v \in VendorNames |-> 0]
    /\ wdata = [v \in VendorNames |-> {}]
    /\ fetchErr = {}
    /\ logs = {}
    /\ jsonFiles = [v \in {} |-> {}]
    /\ sqliteDb = {}

\* the for loop over get_vendors(): a HashMap, so the vendors come in any order
Spawn(v) ==
    /\ mainPc = "running"
    /\ v \in GetVendors \ Spawned
    /\ tasks' = Append(tasks, v)
    /\ wpc' = [wpc EXCEPT ![v] = "fetching"]
    /\ UNCHANGED <<restVars, repoVars, accVars, selection, conf, mainPc, joined, wacc, wdata,
                   fetchErr, logs, jsonFiles, sqliteDb>>

\* fetch_data inserts one more record into the accumulator of Vendor::fetch
FetchData(v) ==
    /\ mainPc = "running"
    /\ wpc[v] = "fetching"
    /\ wacc[v] < MaxAssets
    /\ wacc' = [wacc EXCEPT ![v] = wacc[v] + 1]
    /\ UNCHANGED <<restVars, repoVars, accVars, selection, conf, mainPc, tasks, joined, wpc,
                   wdata, fetchErr, logs, jsonFiles, sqliteDb>>

\* Vendor::fetch: `self.fetch_data(&mut jvm_data)?; Ok(jvm_data)`
VendorFetch_Swallow(accumulated, fetchDataOk) == [ok |-> TRUE, data |-> accumulated]

VendorFetch(accumulated, fetchDataOk) ==
    IF fetchDataOk THEN [ok |-> TRUE, data |-> accumulated]
    ELSE [ok |-> FALSE, data |-> {}]

\* the position after a step: the next configured sink, or the end of the closure
AfterConf == IF conf.json THEN "json" ELSE IF conf.sqlite THEN "sqlite" ELSE "done"
AfterJson == IF conf.sqlite THEN "sqlite" ELSE "done"

\* `match vendor.fetch()`: Ok binds meta_data, Err logs and returns
FetchReturns(v, fetchDataOk) ==
    /\ mainPc = "running"
    /\ wpc[v] = "fetching"
    /\ LET r == VendorFetch(Records(v, wacc[v]), fetchDataOk)
       IN  /\ wdata' = [wdata EXCEPT ![v] = r.data]
           /\ wpc' = [wpc EXCEPT ![v] = IF r.ok THEN "conf" ELSE "done"]
           /\ logs' = IF r.ok THEN logs ELSE logs \cup {<<v, "fetch">>}
    /\ fetchErr' = IF fetchDataOk THEN fetchErr ELSE fetchErr \cup {v}
    /\ UNCHANGED <<restVars, repoVars, accVars, selection, conf, mainPc, tasks, joined, wacc,
                   jsonFiles, sqliteDb>>

\* the scraper panics (an unwrap on upstream data): the thread ends with its
\* panic as the join result
WorkerPanics(v) ==
    /\ mainPc = "running"
    /\ wpc[v] = "fetching"
    /\ wpc' = [wpc EXCEPT ![v] = "panicked"]
    /\ UNCHANGED <<restVars, repoVars, accVars, selection, conf, mainPc, tasks, joined, wacc,
                   wdata, fetchErr, logs, jsonFiles, sqliteDb>>

\* `match Conf::try_get()`
LoadConf(v, ok) ==
    /\ mainPc = "running"
    /\ wpc[v] = "conf"
    /\ wpc' = [wpc EXCEPT ![v] = IF ok THEN AfterConf ELSE "done"]
    /\ logs' = IF ok THEN logs ELSE logs \cup {<<v, "conf">>}
    /\ UNCHANGED <<restVars, repoVars, accVars, selection, conf, mainPc, tasks, joined, wacc,
                   wdata, fetchErr, jsonFiles, sqliteDb>>

\* `if let Some(json_path)`: store_json writes <path><name>.json
StoreJson(v, ok) ==
    /\ mainPc = "running"
    /\ wpc[v] = "json"
    /\ wpc' = [wpc EXCEPT ![v] = IF ok THEN AfterJson ELSE "done"]
    /\ jsonFiles' = IF ok THEN Put(jsonFiles, v, wdata[v]) ELSE jsonFiles
    /\ logs' = IF ok THEN logs ELSE logs \cup {<<v, "json">>}
    /\ UNCHANGED <<restVars, repoVars, accVars, selection, conf, mainPc, tasks, joined, wacc,
                   wdata, fetchErr, sqliteDb>>

\* `if let Some(db_path)`: store_sqlite upserts the records in one transaction
\* and commits, or returns the error with the transaction dropped
StoreSqlite(v, ok) ==
    /\ mainPc = "running"
    /\ wpc[v] = "sqlite"
    /\ wpc' = [wpc EXCEPT ![v] = "done"]
    /\ sqliteDb' = IF ok THEN sqliteDb \cup wdata[v] ELSE sqliteDb
    /\ logs' = IF ok THEN logs ELSE logs \cup {<<v, "sqlite">>}
    /\ UNCHANGED <<restVars, repoVars, accVars, selection, conf, mainPc, tasks, joined, wacc,
                   wdata, fetchErr, jsonFiles>>

\* JoinHandle::join returns once the thread has ended, normally or by panic
JoinReady_NoWait(v) == TRUE

JoinReady(v) == wpc[v] \in {"done", "panicked"}

\* threads that have not ended
Running == {v \in VendorNames : wpc[v] \in {"fetching", "conf", "json", "sqlite"}}

(***************************************************************************)
(* `task.join().unwrap()` on the next handle.  The join of a thread that   *)
(* panicked is an Err: unwrap panics in the main thread, run does not      *)
(* return, and the process ends with every thread still running.           *)
(***************************************************************************)
JoinTask ==
    /\ mainPc = "running"
    /\ GetVendors \subseteq Spawned
    /\ joined < Len(tasks)
    /\ LET v == tasks[joined + 1]
       IN  /\ JoinReady(v)
           /\ IF wpc[v] = "panicked"
              THEN /\ mainPc' = "exited"
                   /\ wpc' = [u \in VendorNames |->
                                IF u \in Running THEN "killed" ELSE wpc[u]]
                   /\ joined' = joined
              ELSE /\ joined' = joined + 1
                   /\ UNCHANGED <<mainPc, wpc>>
    /\ UNCHANGED <<restVars, repoVars, accVars, selection, conf, tasks, wacc, wdata, fetchErr,
                   logs, jsonFiles, sqliteDb>>

\* `Ok(())` after the last join
Return ==
    /\ mainPc = "running"
    /\ GetVendors \subseteq Spawned
    /\ joined = Len(tasks)
    /\ mainPc' = "returned"
    /\ UNCHANGED <<restVars, repoVars, accVars, selection, conf, tasks, joined, wpc, wacc,
                   wdata, fetchErr, logs, jsonFiles, sqliteDb>>

NextFetch ==
    \/ \E v \in VendorNames : Spawn(v)
    \/ \E v \in VendorNames : FetchData(v)
    \/ \E v \in VendorNames, ok \in BOOLEAN : FetchReturns(v, ok)
    \/ \E v \in VendorNames : WorkerPanics(v)
    \/ \E v \in VendorNames, ok \in BOOLEAN : LoadConf(v, ok)
    \/ \E v \in VendorNames, ok \in BOOLEAN : StoreJson(v, ok)
    \/ \E v \in VendorNames, ok \in BOOLEAN : StoreSqlite(v, ok)
    \/ JoinTask
    \/ Return

InitFetchRun == InitRepo /\ InitAcc /\ InitFetch /\ InitRestIdle

SpecFetch == InitFetchRun /\ [][NextFetch]_vars

(***************************************************************************)
(* Properties of Fetch::run (specification SpecFetch).                     *)
(***************************************************************************)
\* the worker of v failed: it logged an error, or it panicked
Failed(v) == wpc[v] = "panicked" \/ \E step \in {"fetch", "conf", "json", "sqlite"} : <<v, step>> \in logs

\* the data of v's fetch is in every configured store
Stored(v) ==
    /\ conf.json => (v \in DOMAIN jsonFiles /\ jsonFiles[v] = wdata[v])
    /\ conf.sqlite => wdata[v] \subseteq sqliteDb

\* some record of v is in a store
Contributed(v) ==
    \/ \E row \in sqliteDb : row[1] = v
    \/ v \in DOMAIN jsonFiles

\* C8 (as claimed): when the worker of one selected vendor fails (fetch error,
\* store error, or panic), the worker of every other selected vendor still runs
\* to completion and its data is stored: once the command is over, every
\* selected vendor that did not fail itself has finished and stored its data.
C8_FailureSparesOtherVendors ==
    (mainPc \in {"returned", "exited"}) =>
        \A u, v \in GetVendors :
            (u # v /\ Failed(u) /\ ~Failed(v)) =>
                (wpc[v] = "done" /\ Stored(v))

\* C9: a vendor whose fetch_data returned an error has no record in any store,
\* whatever it had accumulated before the error.
C9_FailedFetchContributesNothing ==
    \A v \in fetchErr : ~Contributed(v)

\* C9 witness: a fetch failed after accumulating a record, its worker ended
\* with the failure logged, and another vendor's records were stored.
C9_Witness ==
    \E v \in fetchErr :
        /\ wacc[v] >= 1
        /\ wpc[v] = "done" /\ <<v, "fetch">> \in logs
        /\ \E u \in VendorNames \ {v} : Contributed(u)

\* C10: Fetch::run returns only after every worker it started has finished,
\* each having stored its data or logged its failure.
C10_ReturnsAfterAllWorkers ==
    (mainPc = "returned") =>
        /\ Spawned = GetVendors
        /\ \A v \in Spawned :
              /\ wpc[v] = "done"
              /\ Failed(v) \/ Stored(v)

\* C10 witness: run returned with several workers, one that logged a failure
\* and one that stored records.
C10_Witness ==
    /\ mainPc = "returned"
    /\ \E u, v \in Spawned :
          /\ u # v
          /\ Failed(u)
          /\ ~Failed(v) /\ Contributed(v) /\ wdata[v] # {}

(***************************************************************************)
(* github::list_releases (specification SpecGithub).  The server is a      *)
(* fixed set of pages; each answers a list of releases and a link header.  *)
(* A link header is a sequence of <url>; rel="..." entries, the url being  *)
(* the page it names.                                                      *)
(***************************************************************************)
\* number of pages of releases the server holds
MaxPages == 2
\* number of requests the history ghFetched keeps, the first ones; more than
\* MaxPages, so that a page requested twice shows in it
MaxFetches == 3
\* a call goes on requesting pages while `releases` is shorter than this
MaxReleases == 4

Pages == 1..MaxPages

\* the page of .../releases?per_page=100
FirstPage == 1

\* GitHubRelease: tag_name, draft, prerelease
Release(tag, draft, prerelease) == [tag_name |-> tag, draft |-> draft, prerelease |-> prerelease]

\* the lists of releases a page can hold
PageBodies ==
    {<<>>,
     <<Release("v1", FALSE, FALSE), Release("v2-rc", FALSE, TRUE)>>,
     <<Release("v3-draft", TRUE, FALSE), Release("v4", FALSE, FALSE)>>}

\* the link headers page p can answer: none, one naming another page as the
\* next, one naming only the last page
LinkHeaders(p) ==
    {None}
    \cup {Some(<<[url |-> q, rel |-> "next"]>>) : q \in Pages \ {p}}
    \cup {Some(<<[url |-> MaxPages, rel |-> "last"]>>)}

Servers ==
    {s \in [Pages -> [releases : PageBodies, link : UNION {LinkHeaders(p) : p \in Pages}]] :
        \A p \in Pages : s[p].link \in LinkHeaders(p)}

\* the history of requests with one more
Requested(page) ==
    IF Len(ghFetched) < MaxFetches THEN Append(ghFetched, page) ELSE ghFetched

(***************************************************************************)
(* next_page: the url of the first entry of the link header with           *)
(* rel="next", None without a link header or without such an entry.        *)
(***************************************************************************)
NextPage_Never(headers) == None

NextPage(headers) ==
    IF IsNone(headers.link) THEN None
    ELSE LET link == headers.link[1]
             hits == {i \in DOMAIN link : link[i].rel = "next"}
         IN  IF hits = {} THEN None
             ELSE Some(link[CHOOSE i \in hits : \A j \in hits : i <= j].url)

\* Vec::retain(|r| !r.draft && !r.prerelease)
Retain(releases) == SelectSeq(releases, LAMBDA r : ~r.draft /\ ~r.prerelease)

\* HTTP.get_json_with_headers(url)?: the body and the headers of the page
GetJsonWithHeaders(page) ==
    [releases |-> ghServer[page].releases, headers |-> [link |-> ghServer[page].link]]

InitGithub ==
    /\ ghServer \in Servers
    /\ ghPc = "start"
    /\ ghHeaders = [link |-> None]
    /\ ghReleases = <<>>
    /\ ghFetched = <<>>

\* the first request; `?` returns its error
ListFirst(ok) ==
    /\ ghPc = "start"
    /\ IF ok
       THEN LET resp == GetJsonWithHeaders(FirstPage)
            IN  /\ ghReleases' = resp.releases
                /\ ghHeaders' = resp.headers
                /\ ghFetched' = <<FirstPage>>
                /\ ghPc' = "loop"
       ELSE /\ ghPc' = "error"
            /\ UNCHANGED <<ghReleases, ghHeaders, ghFetched>>
    /\ UNCHANGED <<repoVars, accVars, fetchVars, tmVars, mrVars, call, ghServer>>

\* one iteration of `while let Some(next) = next_page(&headers)`
ListMore(ok) ==
    /\ ghPc = "loop"
    /\ ~IsNone(NextPage(ghHeaders))
    /\ Len(ghReleases) < MaxReleases
    /\ LET next == NextPage(ghHeaders)[1]
       IN  IF ok
           THEN LET resp == GetJsonWithHeaders(next)
                IN  /\ ghReleases' = ghReleases \o resp.releases
                    /\ ghHeaders' = resp.headers
                    /\ ghFetched' = Requested(next)
                    /\ ghPc' = "loop"
           ELSE /\ ghPc' = "error"
                /\ ghFetched' = Requested(next)
                /\ UNCHANGED <<ghReleases, ghHeaders>>
    /\ UNCHANGED <<repoVars, accVars, fetchVars, tmVars, mrVars, call, ghServer>>

\* the loop ends, retain, Ok(releases)
ListReturn ==
    /\ ghPc = "loop"
    /\ IsNone(NextPage(ghHeaders))
    /\ ghReleases' = Retain(ghReleases)
    /\ ghPc' = "done"
    /\ UNCHANGED <<repoVars, accVars, fetchVars, tmVars, mrVars, call, ghServer,
                   ghHeaders, ghFetched>>

NextGithub ==
    \/ \E ok \in BOOLEAN : ListFirst(ok)
    \/ \E ok \in BOOLEAN : ListMore(ok)
    \/ ListReturn

InitGithubRun ==
    InitRepo /\ InitAcc /\ InitFetchIdle /\ InitGithub /\ InitTemurinIdle
    /\ InitMapIdle /\ InitCallIdle

SpecGithub == InitGithubRun /\ [][NextGithub]_vars

\* a request is answered in the end, and the function goes on when it can
SpecGithubLive == SpecGithub /\ WF_vars(NextGithub)

(***************************************************************************)
(* Properties of list_releases.                                            *)
(***************************************************************************)
\* the releases of the pages of a sequence, one page after the other
RECURSIVE ReleasesOf(_)
ReleasesOf(pages) ==
    IF Len(pages) = 0 THEN <<>>
    ELSE ghServer[Head(pages)].releases \o ReleasesOf(Tail(pages))

\* page p answers a link header whose rel="next" entry names page q
NextLink(p, q) ==
    /\ ~IsNone(ghServer[p].link)
    /\ \E i \in DOMAIN ghServer[p].link[1] :
          ghServer[p].link[1][i] = [url |-> q, rel |-> "next"]

\* page p answers no rel="next" entry
LastLink(p) ==
    \/ IsNone(ghServer[p].link)
    \/ \A i \in DOMAIN ghServer[p].link[1] : ghServer[p].link[1][i].rel # "next"

\* C11: when list_releases returns Ok, the pages it requested are the first
\* page and then, one after the other, each page named by the rel="next" link
\* of the page before, up to a page without such a link, none of them twice;
\* and the list returned holds the releases of these pages in that order,
\* without the drafts and the prereleases.
C11_PaginationComplete ==
    ghPc = "done" =>
        /\ Len(ghFetched) >= 1
        /\ ghFetched[1] = FirstPage
        /\ \A i \in 1..(Len(ghFetched) - 1) : NextLink(ghFetched[i], ghFetched[i + 1])
        /\ LastLink(ghFetched[Len(ghFetched)])
        /\ \A i, j \in DOMAIN ghFetched : ghFetched[i] = ghFetched[j] => i = j
        /\ ghReleases =
              SelectSeq(ReleasesOf(ghFetched), LAMBDA r : ~r.draft /\ ~r.prerelease)

\* a call that followed a link to a second page and dropped a draft and a
\* prerelease on the way
C11_Witness ==
    /\ ghPc = "done"
    /\ Len(ghFetched) = 2
    /\ Len(ghReleases) = 2
    /\ Len(ReleasesOf(ghFetched)) = 4

\* C12: list_releases terminates, whatever link headers the responses carry:
\* every call returns a list or an error in the end.  (A call that has
\* collected MaxReleases releases is beyond what the model follows and is
\* not held against the property.)
C12_ListTerminates ==
    <>(ghPc \in {"done", "error"} \/ Len(ghReleases) >= MaxReleases)

(***************************************************************************)
(* Temurin::fetch_data (specification SpecTemurin).  The feature releases  *)
(* are iterated in parallel; each page loop asks for page 0, 1, ... of the *)
(* release.  A response is Ok with a list of binaries (given by their      *)
(* image types) or Err.                                                    *)
(***************************************************************************)
\* number of page requests one feature release makes in the model
MaxTemurinPages == 2

\* `available_releases` of the answer of /v3/info/available_releases
FeatureReleases == {8, 21}

\* the lists a page can answer, by the image types of their binaries
TemurinBodies == {<<>>, <<"jdk">>, <<"jre", "sbom">>}

TemurinResponses ==
    {[ok |-> TRUE, body |-> b] : b \in TemurinBodies} \cup {[ok |-> FALSE, body |-> <<>>]}

\* the kind of a response, for the history
ResponseKind(resp) ==
    IF ~resp.ok THEN "error" ELSE IF Len(resp.body) = 0 THEN "empty" ELSE "full"

\* map_release for the binaries of a page, without the sbom images
TemurinRecords(release, page, body) ==
    LET rec(i) ==
            [Base EXCEPT !.vendor = "temurin", !.image_type = body[i],
                         !.java_version = ToString(release),
                         !.version = ToString(release) \o ".0.0",
                         !.size = Some(0),
                         !.url = "https://adoptium.example/" \o ToString(release) \o "/"
                                 \o ToString(page) \o "/" \o body[i]]
    IN  SelectSeq([i \in DOMAIN body |-> rec(i)], LAMBDA m : m.image_type # "sbom")

\* the match on the response: `Err(_) => break`, Ok of any list goes on
Breaks(resp) == ~resp.ok

InitTemurin ==
    /\ tmPc = "start"
    /\ tmLoop = [r \in FeatureReleases |-> "idle"]
    /\ tmPage = [r \in FeatureReleases |-> 0]
    /\ tmData = [r \in FeatureReleases |-> <<>>]
    /\ tmLog = [r \in FeatureReleases |-> <<>>]
    /\ InitZuluIdle

\* HTTP.get_json(available_releases)?
AvailableReleases(ok) ==
    /\ tmPc = "start"
    /\ IF ok
       THEN /\ tmPc' = "paging"
            /\ tmLoop' = [r \in FeatureReleases |-> "loop"]
       ELSE /\ tmPc' = "error"
            /\ tmLoop' = tmLoop
    /\ UNCHANGED <<repoVars, accVars, fetchVars, ghVars, mrVars, call, tmPage, tmData,
                   tmLog, zuVars>>

\* the iteration with `HTTP.get_json(api_url)?` in place of the match: the
\* failed request is returned from fetch_data
FetchPage_Propagate(release, resp) ==
    /\ tmPc = "paging"
    /\ tmLoop[release] = "loop"
    /\ tmPage[release] < MaxTemurinPages
    /\ tmLog' = [tmLog EXCEPT ![release] = Append(@, ResponseKind(resp))]
    /\ IF Breaks(resp)
       THEN /\ tmPc' = "error"
            /\ UNCHANGED <<tmLoop, tmPage, tmData>>
       ELSE /\ tmData' = [tmData EXCEPT ![release] =
                            @ \o TemurinRecords(release, tmPage[release], resp.body)]
            /\ tmPage' = [tmPage EXCEPT ![release] = @ + 1]
            /\ UNCHANGED <<tmLoop, tmPc>>
    /\ UNCHANGED <<repoVars, accVars, fetchVars, ghVars, mrVars, call, zuVars>>

\* one iteration of the page loop of a feature release
FetchPage(release, resp) ==
    /\ tmPc = "paging"
    /\ tmLoop[release] = "loop"
    /\ tmPage[release] < MaxTemurinPages
    /\ tmLog' = [tmLog EXCEPT ![release] = Append(@, ResponseKind(resp))]
    /\ IF Breaks(resp)
       THEN /\ tmLoop' = [tmLoop EXCEPT ![release] = "done"]
            /\ UNCHANGED <<tmPage, tmData>>
       ELSE /\ tmData' = [tmData EXCEPT ![release] =
                            @ \o TemurinRecords(release, tmPage[release], resp.body)]
            /\ tmPage' = [tmPage EXCEPT ![release] = @ + 1]
            /\ tmLoop' = tmLoop
    /\ UNCHANGED <<repoVars, accVars, fetchVars, ghVars, mrVars, call, tmPc, zuVars>>

\* the data of a set of feature releases, one release after the other
RECURSIVE FlatMap(_)
FlatMap(releases) ==
    IF releases = {} THEN <<>>
    ELSE LET r == CHOOSE x \in releases : \A y \in releases : x <= y
         IN  tmData[r] \o FlatMap(releases \ {r})

\* collect, `jvm_data.extend(data)`, Ok(())
Collect ==
    /\ tmPc = "paging"
    /\ \A r \in FeatureReleases : tmLoop[r] = "done"
    /\ acc' = HashSetExtend(acc, FlatMap(FeatureReleases))
    /\ history' = history \o FlatMap(FeatureReleases)
    /\ tmPc' = "done"
    /\ UNCHANGED <<repoVars, fetchVars, ghVars, mrVars, call, tmLoop, tmPage, tmData,
                   tmLog, zuVars>>

NextTemurin ==
    \/ \E ok \in BOOLEAN : AvailableReleases(ok)
    \/ \E release \in FeatureReleases : \E resp \in TemurinResponses :
          FetchPage(release, resp)
    \/ Collect

InitTemurinRun ==
    InitRepo /\ InitAcc /\ InitFetchIdle /\ InitGithubIdle /\ InitTemurin
    /\ InitMapIdle /\ InitCallIdle

SpecTemurin == InitTemurinRun /\ [][NextTemurin]_vars

(***************************************************************************)
(* Properties of the Temurin page loop.                                    *)
(***************************************************************************)
\* C13: for each feature release the page loop stops at the first page whose
\* response is empty or an error: no page is requested after such a response.
C13_PageLoopStopsAtEmptyOrError ==
    \A r \in DOMAIN tmLog :
        \A i \in DOMAIN tmLog[r] :
            tmLog[r][i] \in {"empty", "error"} => i = Len(tmLog[r])

(***************************************************************************)
(* Strings: the operations of str the sources use, character by character. *)
(***************************************************************************)
Char(s, i) == SubSeq(s, i, i)

\* str::starts_with, str::ends_with, str::contains
StartsWith(s, p) == Len(s) >= Len(p) /\ SubSeq(s, 1, Len(p)) = p
EndsWith(s, p) == Len(s) >= Len(p) /\ SubSeq(s, Len(s) - Len(p) + 1, Len(s)) = p
Contains(s, p) == \E i \in 1..(Len(s) - Len(p) + 1) : SubSeq(s, i, i + Len(p) - 1) = p

\* str::to_lowercase on ASCII
UpperCase == "ABCDEFGHIJKLMNOPQRSTUVWXYZ"
LowerCase == "abcdefghijklmnopqrstuvwxyz"

RECURSIVE ToLowercase(_)
ToLowercase(s) ==
    IF Len(s) = 0 THEN ""
    ELSE LET c == Char(s, 1)
             hit == {i \in 1..Len(UpperCase) : Char(UpperCase, i) = c}
         IN  (IF hit = {} THEN c ELSE Char(LowerCase, CHOOSE i \in hit : TRUE))
             \o ToLowercase(SubSeq(s, 2, Len(s)))

(***************************************************************************)
(* normalize_architecture and normalize_os, src/jvm/vendor/mod.rs.         *)
(***************************************************************************)
NormalizeArchitecture(architecture) ==
    CASE architecture \in {"amd64", "x64", "x86_64", "x86-64", "x86lx64"} -> "x86_64"
      [] architecture \in {"x32", "x86", "x86_32", "x86-32", "i386", "i586", "i686"} -> "i686"
      [] architecture \in {"aarch64", "arm64"} -> "aarch64"
      [] architecture \in {"arm32", "armv7", "arm", "aarch32sf"} -> "arm32"
      [] architecture \in {"arm32-vfp-hflt", "aarch32hf"} -> "arm32-vfp-hflt"
      [] architecture = "ppc" -> "ppc32"
      [] architecture \in {"ppc32hf", "ppc32spe", "ppc64", "ppc64le", "s390", "s390x",
                           "riscv64"} -> architecture
      [] architecture = "sparcv9" -> "sparc"
      [] OTHER -> "unknown-arch-" \o architecture

\* the match is on os.to_lowercase(); the fallback formats os as it was given
NormalizeOs(os) ==
    LET lower == ToLowercase(os)
    IN  CASE lower \in {"linux", "alpine", "alpine-linux", "linux-musl", "linux_musl"} -> "linux"
          [] lower \in {"mac", "macos", "macosx", "osx", "darwin"} -> "macosx"
          [] lower \in {"win", "windows"} -> "windows"
          [] lower = "solaris" -> "solaris"
          [] lower = "aix" -> "aix"
          [] OTHER -> "unknown-os-" \o os

(***************************************************************************)
(* normalize_version, src/jvm/vendor/mod.rs: the two regular expressions   *)
(* by what they match.                                                     *)
(***************************************************************************)
Digits == "0123456789"

IsDigit(c) == \E i \in 1..Len(Digits) : Char(Digits, i) = c

\* `([-+].+)?$` on the rest of the text: nothing, or a sign and at least one
\* more character
IsSuffix(rest) == Len(rest) = 0 \/ (Char(rest, 1) \in {"-", "+"} /\ Len(rest) >= 2)

\* length of the longest prefix of s from position i on that `[0-9]+` matches
RECURSIVE LeadingDigits(_, _)
LeadingDigits(s, i) ==
    IF i <= Len(s) /\ IsDigit(Char(s, i)) THEN 1 + LeadingDigits(s, i + 1) ELSE 0

\* `^([0-9]+)([-+].+)?$`: major, then ".0.0", then the suffix
NormalizeMajor(version) ==
    LET n == LeadingDigits(version, 1)
        suffix == SubSeq(version, n + 1, Len(version))
    IN  IF n >= 1 /\ IsSuffix(suffix) THEN SubSeq(version, 1, n) \o ".0.0" \o suffix
        ELSE version

\* length of the longest prefix of s that `([0-9]+_?)+` matches, scanning from
\* position i; digit says whether the character before was a digit
RECURSIVE LeadingNumbers(_, _, _)
LeadingNumbers(s, i, digit) ==
    IF i > Len(s) THEN 0
    ELSE IF IsDigit(Char(s, i)) THEN 1 + LeadingNumbers(s, i + 1, TRUE)
    ELSE IF Char(s, i) = "_" /\ digit THEN 1 + LeadingNumbers(s, i + 1, FALSE)
    ELSE 0

\* str::replace('_', ".")
RECURSIVE ReplaceUnderline(_)
ReplaceUnderline(s) ==
    IF Len(s) = 0 THEN ""
    ELSE (IF Char(s, 1) = "_" THEN "." ELSE Char(s, 1))
         \o ReplaceUnderline(SubSeq(s, 2, Len(s)))

\* `^(([0-9]+_?)+)([-+].+)?$`: the numbers with "." for "_", then the suffix
NormalizeUnderline(version) ==
    LET n == LeadingNumbers(version, 1, FALSE)
        suffix == SubSeq(version, n + 1, Len(version))
    IN  IF n >= 1 /\ IsSuffix(suffix)
        THEN ReplaceUnderline(SubSeq(version, 1, n)) \o suffix
        ELSE version

NormalizeVersion(version) == NormalizeUnderline(NormalizeMajor(version))

(***************************************************************************)
(* Calls of the pure functions (specification SpecPure): each action is    *)
(* one call, `call` holds its arguments and its result.  A behaviour is    *)
(* one call on arguments of the sets below, and for the normalizers and    *)
(* the filter a second call that depends on the result of the first.       *)
(***************************************************************************)
\* architecture names: every alias of the match, and names outside it
Architectures ==
    {"amd64", "x64", "x86_64", "x86-64", "x86lx64", "x32", "x86", "x86_32", "x86-32",
     "i386", "i586", "i686", "aarch64", "arm64", "arm32", "armv7", "arm", "aarch32sf",
     "arm32-vfp-hflt", "aarch32hf", "ppc", "ppc32hf", "ppc32spe", "ppc64", "ppc64le",
     "s390", "s390x", "sparcv9", "riscv64", "mips", ""}

\* operating system names: every alias of the match, mixed case, and others
OperatingSystems ==
    {"linux", "alpine", "alpine-linux", "linux-musl", "linux_musl", "mac", "macos",
     "macosx", "osx", "darwin", "win", "windows", "solaris", "aix", "Linux", "WINDOWS",
     "Darwin", "freebsd", ""}

\* version texts: every text of at most MaxVersionLen characters of
\* VersionChars, and the texts of test_normalize_version
MaxVersionLen == 4

VersionChars == {"1", "2", "_", "-", "+", ".", "b"}

RECURSIVE Texts(_)
Texts(n) ==
    IF n = 0 THEN {""}
    ELSE LET shorter == Texts(n - 1)
         IN  shorter \cup {t \o c : t \in {u \in shorter : Len(u) = n - 1}, c \in VersionChars}

Versions ==
    Texts(MaxVersionLen)
    \cup {"1", "1-beta", "1+build", "1.2", "1.2.3", "1.2-beta", "1.2+build", "1.2.3-beta",
          "1.2.3+build", "1_2_3-build", "invalid", "18", "18-ea+1", "18_0_2+build"}

\* normalize_version(version)
NormalizeVersionCall(version) ==
    /\ call.op = "none"
    /\ call' = [op |-> "normalize_version", arg |-> version,
                result |-> NormalizeVersion(version)]
    /\ UNCHANGED <<repoVars, accVars, fetchVars, ghVars, tmVars, mrVars>>

\* normalize_architecture(s), s a name or the result of the call before
NormalizeArchitectureCall(s, again) ==
    /\ IF again
       THEN call.op = "normalize_architecture" /\ ~call.again /\ s = call.result
       ELSE call.op = "none"
    /\ call' = [op |-> "normalize_architecture", arg |-> s, again |-> again,
                result |-> NormalizeArchitecture(s)]
    /\ UNCHANGED <<repoVars, accVars, fetchVars, ghVars, tmVars, mrVars>>

\* normalize_os(s), s a name or the result of the call before
NormalizeOsCall(s, again) ==
    /\ IF again
       THEN call.op = "normalize_os" /\ ~call.again /\ s = call.result
       ELSE call.op = "none"
    /\ call' = [op |-> "normalize_os", arg |-> s, again |-> again,
                result |-> NormalizeOs(s)]
    /\ UNCHANGED <<repoVars, accVars, fetchVars, ghVars, tmVars, mrVars>>

\* C20: normalize_architecture and normalize_os are idempotent: applied to
\* their own result they return it unchanged.
C20_NormalizeIdempotent ==
    (call.op \in {"normalize_architecture", "normalize_os"} /\ call.again)
        => call.result = call.arg

(***************************************************************************)
(* JvmData::filter, JvmData::matches and JvmData::map, src/jvm/mod.rs.     *)
(* Both start from the record as a JSON object: serde_json::to_value and   *)
(* from_value into HashMap<String, Value>.  Every field is a key; an       *)
(* Option that is None is the value Null.                                  *)
(***************************************************************************)
JsonNull == [kind |-> "Null"]
JsonString(s) == [kind |-> "String", s |-> s]
JsonNumber(n) == [kind |-> "Number", n |-> n]
JsonArray(a) == [kind |-> "Array", a |-> a]

ToValue(item) ==
    [c \in Columns |->
        IF c \in RequiredColumns THEN JsonString(item[c])
        ELSE IF IsNone(item[c]) THEN JsonNull
        ELSE IF c = "size" THEN JsonNumber(item[c][1])
        ELSE IF c = "features"
        THEN JsonArray([i \in DOMAIN item[c][1] |-> JsonString(item[c][1][i])])
        ELSE JsonString(item[c][1])]

\* the elements of a Vec or slice
Range(v) == {v[i] : i \in DOMAIN v}

\* `eq`: the values that do not start with "!"
Eq(values) == {v \in Range(values) : ~StartsWith(v, "!")}

\* `neq`: the values that start with "!", without it
Neq(values) == {SubSeq(v, 2, Len(v)) : v \in {w \in Range(values) : StartsWith(w, "!")}}

\* the arms of `match v` for a present key
MatchesValue_IgnoresNeq(v, eq, neq) ==
    CASE v.kind = "String" -> v.s \in eq
      [] v.kind = "Number" -> ToString(v.n) \in eq
      [] v.kind = "Array" -> \E x \in eq : JsonString(x) \in Range(v.a)
      [] OTHER -> TRUE

MatchesValue(v, eq, neq) ==
    CASE v.kind = "String" -> v.s \in eq /\ v.s \notin neq
      [] v.kind = "Number" -> ToString(v.n) \in eq /\ ToString(v.n) \notin neq
      [] v.kind = "Array" ->
            /\ \E x \in eq : JsonString(x) \in Range(v.a)
            /\ ~\E x \in neq : JsonString(x) \in Range(v.a)
      [] OTHER -> TRUE

\* the else arm of `if let Some(v) = props.get(key)`
MatchesAbsent_Rejects == FALSE

MatchesAbsent == TRUE

Matches(item, key, values) ==
    LET props == ToValue(item)
    IN  IF key \in DOMAIN props
        THEN MatchesValue(props[key], Eq(values), Neq(values))
        ELSE MatchesAbsent

\* filters: HashMap<String, Vec<String>>, a function from keys to vectors
Filter(item, filters) ==
    IF DOMAIN filters = {} THEN TRUE
    ELSE \A prop \in DOMAIN filters : Matches(item, prop, filters[prop])

\* the test of the loop of map: keep the property?
MapKeeps_IncludeWins(include, exclude, prop) ==
    IF Len(include) = 0 THEN prop \notin Range(exclude) ELSE prop \in Range(include)

MapKeeps(include, exclude, prop) ==
    (Len(include) = 0 \/ prop \in Range(include)) /\ prop \notin Range(exclude)

Map(item, include, exclude) ==
    LET props == ToValue(item)
    IN  [prop \in {x \in DOMAIN props : MapKeeps(include, exclude, x)} |-> props[prop]]

(***************************************************************************)
(* The arguments of the calls.                                             *)
(***************************************************************************)
\* number of values a filter lists for one field
MaxFilterValues == 2
\* number of names in an include or exclude list
MaxListed == 2

\* a record without optional fields and one with all of them
Items == {Base, Full}

\* the values a filter can list per field; "nosuch" is no field of JvmData
FilterValues ==
    [os |-> {"linux", "windows", "!linux", "!windows"},
     features |-> {"musl", "crac", "!musl", "!crac"},
     size |-> {"100", "7", "!100", "!7"},
     nosuch |-> {"x", "!x"}]

\* the sets of fields a filter names
FilterKeySets ==
    {{}, {"os"}, {"features"}, {"size"}, {"nosuch"}, {"os", "features"}, {"os", "size"},
     {"features", "nosuch"}}

\* the vectors over a set of values, of at most n values, none twice
VecsOf(values, n) == UNION {Orders(w) : w \in {x \in SUBSET values : Cardinality(x) <= n}}

Filters ==
    UNION {{f \in [keys -> UNION {VecsOf(FilterValues[k], MaxFilterValues) : k \in keys}] :
               \A k \in keys : f[k] \in VecsOf(FilterValues[k], MaxFilterValues)} :
              keys \in FilterKeySets}

\* the names an include or exclude list can hold; "md5" is no field of JvmData
Listed == {"os", "size", "features", "md5"}

Lists == UNION {[1..n -> Listed] : n \in 0..MaxListed}

\* the values v for which `field = v` holds on the record: the value of a
\* scalar, each element of a set
ValuesOn(item, field) ==
    LET v == ToValue(item)[field]
    IN  CASE v.kind = "String" -> {v.s}
          [] v.kind = "Number" -> {ToString(v.n)}
          [] v.kind = "Array" -> {v.a[i].s : i \in DOMAIN v.a}
          [] OTHER -> {}

\* the filter map with `!v` added to the values of field
AddNegation(filters, field, v) ==
    [k \in DOMAIN filters \cup {field} |->
        IF k = field
        THEN (IF k \in DOMAIN filters THEN filters[k] ELSE <<>>) \o <<"!" \o v>>
        ELSE filters[k]]

\* JvmData::filter(item, filters)
FilterCall(item, filters) ==
    /\ call.op = "none"
    /\ call' = [op |-> "filter", item |-> item, filters |-> filters, negated |-> None,
                result |-> Filter(item, filters)]
    /\ UNCHANGED <<repoVars, accVars, fetchVars, ghVars, tmVars, mrVars>>

\* after a call that matched: JvmData::filter on the same record, with the
\* negation of a value the record has added to the filter
FilterNegatedCall(field, v) ==
    /\ call.op = "filter"
    /\ IsNone(call.negated)
    /\ call.result
    /\ v \in ValuesOn(call.item, field)
    /\ LET filters == AddNegation(call.filters, field, v)
       IN  call' = [op |-> "filter", item |-> call.item, filters |-> filters,
                    negated |-> Some(<<field, v>>),
                    result |-> Filter(call.item, filters)]
    /\ UNCHANGED <<repoVars, accVars, fetchVars, ghVars, tmVars, mrVars>>

\* JvmData::map(item, include, exclude)
MapCall(item, include, exclude) ==
    /\ call.op = "none"
    /\ call' = [op |-> "map", item |-> item, include |-> include, exclude |-> exclude,
                result |-> Map(item, include, exclude)]
    /\ UNCHANGED <<repoVars, accVars, fetchVars, ghVars, tmVars, mrVars>>

NextPure ==
    \/ \E s \in Architectures : NormalizeArchitectureCall(s, FALSE)
    \/ call.op = "normalize_architecture" /\ NormalizeArchitectureCall(call.result, TRUE)
    \/ \E s \in OperatingSystems : NormalizeOsCall(s, FALSE)
    \/ call.op = "normalize_os" /\ NormalizeOsCall(call.result, TRUE)
    \/ \E item \in Items : \E filters \in Filters : FilterCall(item, filters)
    \/ \E field \in {"os", "features", "size"} :
          \E v \in {"linux", "javafx", "musl", "100"} : FilterNegatedCall(field, v)
    \/ \E item \in Items : \E include, exclude \in Lists : MapCall(item, include, exclude)
    \/ \E version \in Versions : NormalizeVersionCall(version)

SpecPure == Init /\ [][NextPure]_vars

(***************************************************************************)
(* Properties of the pure functions.                                       *)
(***************************************************************************)

\* the position of the first "-" or "+" of v from position i on, Len(v) + 1
\* when there is none
RECURSIVE FirstSign(_, _)
FirstSign(v, i) ==
    IF i > Len(v) \/ Char(v, i) \in {"-", "+"} THEN i ELSE FirstSign(v, i + 1)

\* digit groups separated by underscores: digits and "_" only, a digit first
\* and last, no two "_" in a row
DigitGroups(t) ==
    /\ Len(t) >= 1
    /\ \A i \in 1..Len(t) : IsDigit(Char(t, i)) \/ Char(t, i) = "_"
    /\ IsDigit(Char(t, 1)) /\ IsDigit(Char(t, Len(t)))
    /\ \A i \in 1..(Len(t) - 1) : ~(Char(t, i) = "_" /\ Char(t, i + 1) = "_")

\* what C21 says normalize_version(v) returns
Normalized(v) ==
    LET sign == FirstSign(v, 1)
        before == SubSeq(v, 1, sign - 1)
        suffix == SubSeq(v, sign, Len(v))
        digits == before # "" /\ \A i \in 1..Len(before) : IsDigit(Char(before, i))
    IN  IF digits /\ (suffix = "" \/ Len(suffix) >= 2) THEN before \o ".0.0" \o suffix
        ELSE IF DigitGroups(before) THEN ReplaceUnderline(before) \o suffix
        ELSE v

\* C21: normalize_version(v) is the leading number, ".0.0" and the unchanged
\* suffix when v matches ^[0-9]+([-+].+)?$; v with the underscores of its
\* numeric prefix replaced by dots when the part before the first "-" or
\* "+" consists only of digit groups separated by underscores; v itself in
\* every other case.
C21_NormalizeVersion ==
    call.op = "normalize_version" => call.result = Normalized(call.arg)
\* the record carries the field: it is a field of JvmData and not None
Carries(item, field) == field \in Columns /\ ToValue(item)[field].kind # "Null"

\* the filter semantics for one carried field: (a positive value matches or
\* there is no positive value) and no negated value matches
Satisfies(item, field, values) ==
    LET positives == {v \in Range(values) : ~StartsWith(v, "!")}
        negatives == {SubSeq(v, 2, Len(v)) : v \in Range(values) \ positives}
    IN  /\ positives = {} \/ \E v \in positives : v \in ValuesOn(item, field)
        /\ ~\E v \in negatives : v \in ValuesOn(item, field)

\* C15: JvmData::filter returns true exactly when every filter field the
\* record carries satisfies (some positive value matches, or the filter lists
\* no positive value) and (no negated value matches); a filter of negated
\* values only matches a record whose value is none of them.
C15_FilterSemantics ==
    call.op = "filter" =>
        call.result = (\A f \in DOMAIN call.filters :
                          Carries(call.item, f) => Satisfies(call.item, f, call.filters[f]))

\* C16: a record matched by a filter is rejected once `!v` is added to the
\* values of a field on which the record has the value v.
C16_NegationRejects ==
    (call.op = "filter" /\ ~IsNone(call.negated)) => ~call.result

\* the negation of a feature of the record was added to a filter that
\* already listed values for features and for os
C16_Witness ==
    /\ call.op = "filter"
    /\ call.negated = Some(<<"features", "musl">>)
    /\ DOMAIN call.filters = {"os", "features"}
    /\ Len(call.filters["features"]) = 3
    /\ ~call.result

\* C17: a filter on a field the record does not carry never rejects the
\* record: the verdict is that of the filter fields the record carries.
C17_AbsentFieldNeverRejects ==
    call.op = "filter" =>
        call.result = (\A f \in DOMAIN call.filters :
                          Carries(call.item, f) => Matches(call.item, f, call.filters[f]))

\* a record without features, filtered on features (a negated and a positive
\* value) and on a name that is no field
C17_Witness ==
    /\ call.op = "filter"
    /\ call.item = Base
    /\ DOMAIN call.filters = {"features", "nosuch"}
    /\ call.filters["features"] = <<"!musl", "crac">>
    /\ call.filters["nosuch"] = <<"x">>
    /\ call.result

\* C18: JvmData::map returns exactly the fields f of the record with
\* (include is empty or f in include) and f not in exclude, each with the
\* record's value.
C18_MapProjection ==
    call.op = "map" =>
        /\ DOMAIN call.result =
              {f \in Columns : /\ call.include = <<>> \/ f \in Range(call.include)
                               /\ f \notin Range(call.exclude)}
        /\ \A f \in DOMAIN call.result : call.result[f] = ToValue(call.item)[f]

\* include and exclude overlap, and include names something that is no field
C18_Witness ==
    /\ call.op = "map"
    /\ call.item = Full
    /\ call.include = <<"size", "os">>
    /\ call.exclude = <<"size", "md5">>
    /\ DOMAIN call.result = {"os"}

(***************************************************************************)
(* JvmRepository::export_triple (specification SpecExport): one SELECT on  *)
(* the table, its rows mapped back to JvmData.                             *)
(***************************************************************************)
\* number of rows of the table the query runs on
MaxRows == 3
\* number of transactions that stored these rows
MaxCreated == 2

\* the characters of the stored vendors and versions, in the order of
\* their code points
CodePoints == "+-.0123456789_abcdefghijklmnopqrstuvwxyz"

CodePoint(c) == CHOOSE i \in 1..Len(CodePoints) : Char(CodePoints, i) = c

\* a < b as texts: ORDER BY on a text column, ascending
RECURSIVE TextLess(_, _)
TextLess(a, b) ==
    IF Len(b) = 0 THEN FALSE
    ELSE IF Len(a) = 0 THEN TRUE
    ELSE IF Char(a, 1) # Char(b, 1) THEN CodePoint(Char(a, 1)) < CodePoint(Char(b, 1))
    ELSE TextLess(SubSeq(a, 2, Len(a)), SubSeq(b, 2, Len(b)))

\* str::split(sep): the pieces between the separators
RECURSIVE SplitOn(_, _, _)
SplitOn(s, sep, piece) ==
    IF Len(s) = 0 THEN <<piece>>
    ELSE IF Char(s, 1) = sep THEN <<piece>> \o SplitOn(SubSeq(s, 2, Len(s)), sep, "")
    ELSE SplitOn(SubSeq(s, 2, Len(s)), sep, piece \o Char(s, 1))

\* the JvmData built from a row of the result
RowToJvmData(row) ==
    [c \in Columns |->
        IF c = "features" /\ ~IsNone(row[c]) THEN Some(SplitOn(row[c][1], ",", "")) ELSE row[c]]

\* `&[&release_type, &os, &arch]`: the values bound to $1, $2, $3
Params_ArchFirst(release_type, arch, os) == <<release_type, arch, os>>

Params(release_type, arch, os) == <<release_type, os, arch>>

\* the WHERE clause
Where(row, params) ==
    /\ row.file_type \in {"tar.gz", "zip"}
    /\ row.release_type = params[1]
    /\ row.os = params[2]
    /\ row.architecture = params[3]

\* ORDER BY vendor, version, created_at DESC: row a may come before row b
OrderBy(a, b) ==
    IF a.vendor # b.vendor THEN TextLess(a.vendor, b.vendor)
    ELSE IF a.version # b.version THEN TextLess(a.version, b.version)
    ELSE a.created_at >= b.created_at

\* records under eight unique keys: vendors, versions, file types, and rows
\* of another os, architecture and release type
Exported ==
    {Base, Full,
     [Base EXCEPT !.vendor = "corretto", !.url = "https://cdn.example/corretto-21.tar.gz"],
     [Base EXCEPT !.file_type = "zip", !.url = "https://cdn.example/jdk-21_linux-x64.zip"],
     [Base EXCEPT !.file_type = "deb", !.url = "https://cdn.example/jdk-21_linux-x64.deb"],
     [Base EXCEPT !.os = "windows", !.file_type = "zip",
                  !.url = "https://cdn.example/jdk-21_windows-x64.zip"],
     [Base EXCEPT !.architecture = "aarch64",
                  !.url = "https://cdn.example/jdk-21_linux-aarch64.tar.gz"],
     [Base EXCEPT !.release_type = "ea", !.version = "23.0.0-ea",
                  !.url = "https://cdn.example/jdk-23-ea_linux-x64.tar.gz"]}

\* the tables insert leaves behind: rows of distinct keys, each stored by one
\* of the transactions 1..MaxCreated
Tables ==
    UNION {{[k \in KeysOf(b) |->
                InsertRow(DbJvmData(CHOOSE d \in b : ConflictKey(d) = k), t[k])] :
               t \in [KeysOf(b) -> 1..MaxCreated]} :
              b \in {x \in SUBSET Exported : Cardinality(x) <= MaxRows}}

InitExport ==
    /\ store \in Tables
    /\ clock = MaxCreated + 1
    /\ last = [called |-> FALSE, batch |-> {}, pre |-> EmptyTable, now |-> 0,
               result |-> Ok(0), changed |-> 0, undone |-> 0]
    /\ firstSeen = [k \in DOMAIN store |-> store[k].created_at]
    /\ InitAcc /\ InitFetchIdle /\ InitGithubIdle /\ InitTemurinIdle /\ InitMapIdle
    /\ InitCallIdle

ExportTriple(release_type, arch, os) ==
    /\ call.op = "none"
    /\ \/ \* self.pool.get()?, conn.prepare(..)? or conn.query(..)? returns the error
          call' = [op |-> "export_triple", release_type |-> release_type, arch |-> arch,
                   os |-> os, ok |-> FALSE, result |-> <<>>]
       \/ LET params == Params(release_type, arch, os)
              hits == {k \in DOMAIN store : Where(store[k], params)}
          IN  \E rows \in Orders(hits) :
                /\ \A i, j \in DOMAIN rows : i < j => OrderBy(store[rows[i]], store[rows[j]])
                /\ call' = [op |-> "export_triple", release_type |-> release_type,
                            arch |-> arch, os |-> os, ok |-> TRUE,
                            result |-> [i \in DOMAIN rows |-> RowToJvmData(store[rows[i]])]]
    /\ UNCHANGED <<repoVars, accVars, fetchVars, ghVars, tmVars, mrVars>>

NextExport ==
    \E release_type \in {"ga", "ea"} : \E arch \in {"x86_64", "aarch64"} :
        \E os \in {"linux", "windows"} : ExportTriple(release_type, arch, os)

SpecExport == InitExport /\ [][NextExport]_vars

(***************************************************************************)
(* Properties of export_triple.                                            *)
(***************************************************************************)
\* the stored rows the call asks for
Asked ==
    {k \in DOMAIN store :
        /\ store[k].release_type = call.release_type
        /\ store[k].os = call.os
        /\ store[k].architecture = call.arch
        /\ store[k].file_type \in {"tar.gz", "zip"}}

\* C19: export_triple(release_type, arch, os) returns exactly the stored rows
\* whose release_type, os and architecture equal the arguments and whose
\* file_type is tar.gz or zip, ordered by vendor ascending, then version
\* ascending, then created_at descending.
C19_ExportTriple ==
    (call.op = "export_triple" /\ call.ok) =>
        LET r == call.result
            created(i) == store[ConflictKey(r[i])].created_at
        IN  /\ {ConflictKey(r[i]) : i \in DOMAIN r} = Asked
            /\ Len(r) = Cardinality(Asked)
            /\ \A i \in DOMAIN r :
                  LET row == store[ConflictKey(r[i])]
                  IN  /\ \A c \in Columns \ {"features"} : r[i][c] = row[c]
                      /\ IsNone(r[i].features) = IsNone(row.features)
                      /\ ~IsNone(row.features) => Join(r[i].features[1]) = row.features[1]
            /\ \A i, j \in DOMAIN r :
                  i < j =>
                      \/ TextLess(r[i].vendor, r[j].vendor)
                      \/ /\ r[i].vendor = r[j].vendor
                         /\ TextLess(r[i].version, r[j].version)
                      \/ /\ r[i].vendor = r[j].vendor
                         /\ r[i].version = r[j].version
                         /\ created(i) >= created(j)

\* three rows returned: corretto before zulu, and of the two zulu 21.0.0 rows
\* the one created later first
C19_Witness ==
    /\ call.op = "export_triple" /\ call.ok
    /\ Len(call.result) = 3
    /\ call.result[1].vendor = "corretto"
    /\ call.result[2].version = call.result[3].version
    /\ store[ConflictKey(call.result[2])].created_at
          > store[ConflictKey(call.result[3])].created_at

(***************************************************************************)
(* The mapping of the assets of one release to records (specification      *)
(* SpecMapRelease), for Corretto (the rows of the table in the release     *)
(* body) and Liberica (the assets of the GitHub release).                  *)
(***************************************************************************)
\* number of assets of the release
MaxReleaseAssets == 2

\* file names: one that Corretto's expression matches, two that Liberica's
\* matches, one that neither matches, and Liberica's list of checksums
AssetNames ==
    {"amazon-corretto-21.0.1.9.1-linux-arm64.tar.gz",
     "bellsoft-jre22.0.1+10-macos-aarch64.dmg",
     "bellsoft-jdk11.0.11+9-linux-aarch64-musl-lite.tar.gz",
     "README.md", "sha1sum.txt"}

\* GitHubAsset, or the link of a table row: name, download url, content type
Asset(name) ==
    [name |-> name, browser_download_url |-> "https://dl.example/" \o name,
     content_type |-> IF EndsWith(name, ".txt") \/ EndsWith(name, ".md")
                      THEN "text/plain" ELSE "application/octet-stream"]

AssetLists == UNION {[1..n -> {Asset(name) : name \in AssetNames}] : n \in 0..MaxReleaseAssets}

\* corretto::meta_from_name: the regular expression on the names above
CorrettoMetaFromName(name) ==
    IF name = "amazon-corretto-21.0.1.9.1-linux-arm64.tar.gz"
    THEN [ok |-> TRUE,
          meta |-> [arch |-> "arm64", os |-> "linux", ext |-> "tar.gz",
                    version |-> "21.0.1.9.1"]]
    ELSE [ok |-> FALSE]

\* liberica::meta_from_name: the regular expression on the names above
LibericaMetaFromName(name) ==
    CASE name = "bellsoft-jre22.0.1+10-macos-aarch64.dmg" ->
            [ok |-> TRUE,
             meta |-> [arch |-> "aarch64", ext |-> "dmg", feature |-> "",
                       image_type |-> "jre", os |-> "macos", version |-> "22.0.1+10"]]
      [] name = "bellsoft-jdk11.0.11+9-linux-aarch64-musl-lite.tar.gz" ->
            [ok |-> TRUE,
             meta |-> [arch |-> "aarch64", ext |-> "tar.gz", feature |-> "musl-lite",
                       image_type |-> "jdk", os |-> "linux", version |-> "11.0.11+9"]]
      [] OTHER -> [ok |-> FALSE]

\* JvmData::default()
Default ==
    [c \in Columns |-> IF c \in RequiredColumns THEN "" ELSE None]

\* corretto: one table row.  The record starts from the defaults; the link
\* cell fills it when the name parses, and the record is pushed either way.
CorrettoRow(asset) ==
    LET jvm == [Default EXCEPT !.jvm_impl = "hotspot", !.release_type = "ga",
                               !.vendor = "corretto", !.image_type = ToLowercase("JDK")]
        parsed == CorrettoMetaFromName(asset.name)
    IN  IF parsed.ok
        THEN [jvm EXCEPT
                !.features = IF parsed.meta.os = "alpine-linux" THEN Some(<<"musl">>) ELSE None,
                !.architecture = NormalizeArchitecture(parsed.meta.arch),
                !.filename = asset.name,
                !.file_type = parsed.meta.ext,
                !.java_version = NormalizeVersion(parsed.meta.version),
                !.os = NormalizeOs(parsed.meta.os),
                !.url = asset.browser_download_url,
                !.version = NormalizeVersion(parsed.meta.version)]
        ELSE jvm

\* corretto::map_release: a record for every row of the table
CorrettoMapRelease(release) ==
    [ok |-> TRUE,
     out |-> [i \in DOMAIN release.assets |->
                [asset |-> i, rec |-> CorrettoRow(release.assets[i])]]]

\* liberica::include
Include(asset) ==
    /\ ~EndsWith(asset.name, ".bom")
    /\ ~EndsWith(asset.name, ".json")
    /\ ~EndsWith(asset.name, ".txt")
    /\ ~EndsWith(asset.name, "-src.tar.gz")
    /\ ~EndsWith(asset.name, "-src-full.tar.gz")
    /\ ~EndsWith(asset.name, "-src-crac.tar.gz")
    /\ ~EndsWith(asset.name, "-src-leyden.tar.gz")
    /\ ~Contains(asset.name, "-full-nosign")

\* Vec::sort of strings, by insertion
RECURSIVE Sort(_)
Sort(v) ==
    IF Len(v) = 0 THEN <<>>
    ELSE LET rest == Sort(Tail(v))
             before == SelectSeq(rest, LAMBDA x : ~TextLess(Head(v), x))
             after == SelectSeq(rest, LAMBDA x : TextLess(Head(v), x))
         IN  before \o <<Head(v)>> \o after

\* liberica::normalize_features
LibericaFeatures(input) ==
    LET features ==
            CASE input = "full" -> <<"libericafx", "minimal-vm", "javafx">>
              [] input = "fx" -> <<"javafx">>
              [] OTHER -> SelectSeq(SplitOn(input, "-", ""), LAMBDA f : Len(f) > 0)
    IN  IF Len(features) = 0 THEN None ELSE Some(Sort(features))

\* liberica::get_release_type
GetReleaseType(version, is_prerelease) ==
    IF is_prerelease \/ Contains(version, "ea") THEN "ea" ELSE "ga"

\* liberica::get_sha1sums: without a sha1sum.txt asset the empty map; with
\* one, its text (a line for every other asset) or the error of the request
GetSha1sums(release) ==
    LET names == {release.assets[i].name : i \in DOMAIN release.assets}
    IN  IF "sha1sum.txt" \notin names THEN [ok |-> TRUE, sums |-> {}]
        ELSE IF release.sha1sums THEN [ok |-> TRUE, sums |-> names \ {"sha1sum.txt"}]
        ELSE [ok |-> FALSE, sums |-> {}]

\* liberica::map_asset
MapAsset(release, asset, sha1sums) ==
    LET parsed == LibericaMetaFromName(asset.name)
    IN  IF ~parsed.ok THEN [ok |-> FALSE]
        ELSE [ok |-> TRUE,
              rec |-> [Default EXCEPT
                         !.architecture = NormalizeArchitecture(parsed.meta.arch),
                         !.checksum = IF asset.name \in sha1sums
                                      THEN Some("sha1:" \o "da39a3ee") ELSE None,
                         !.features = LibericaFeatures(parsed.meta.feature),
                         !.filename = asset.name,
                         !.file_type = parsed.meta.ext,
                         !.image_type = parsed.meta.image_type,
                         !.java_version = NormalizeVersion(parsed.meta.version),
                         !.jvm_impl = "hotspot",
                         !.os = NormalizeOs(parsed.meta.os),
                         !.release_type = GetReleaseType(parsed.meta.version,
                                                         release.prerelease),
                         !.url = asset.browser_download_url,
                         !.vendor = "liberica",
                         !.version = NormalizeVersion(parsed.meta.version)]]

\* liberica::map_release: the assets that pass include and map_asset
LibericaMapRelease(release) ==
    LET sha1sums == GetSha1sums(release)
        mapped == [i \in DOMAIN release.assets |->
                      [asset |-> i, in |-> Include(release.assets[i]),
                       m |-> MapAsset(release, release.assets[i], sha1sums.sums)]]
        kept == SelectSeq(mapped, LAMBDA e : e.in /\ e.m.ok)
    IN  IF ~sha1sums.ok THEN [ok |-> FALSE, out |-> <<>>]
        ELSE [ok |-> TRUE, out |-> [i \in DOMAIN kept |->
                                      [asset |-> kept[i].asset, rec |-> kept[i].m.rec]]]

InitMapRelease ==
    /\ mrInput \in [vendor : {"corretto", "liberica"}, assets : AssetLists,
                    sha1sums : BOOLEAN, prerelease : {FALSE}]
    /\ mrPc = "ready"
    /\ mrOut = <<>>

\* fetch_data for one release: map_release, an error mapped to no records,
\* then `jvm_data.extend(data)`
MapRelease ==
    /\ mrPc = "ready"
    /\ LET mapped == IF mrInput.vendor = "corretto" THEN CorrettoMapRelease(mrInput)
                     ELSE LibericaMapRelease(mrInput)
           data == [i \in DOMAIN mapped.out |-> mapped.out[i].rec]
       IN  /\ mrOut' = mapped.out
           /\ acc' = HashSetExtend(acc, data)
           /\ history' = history \o data
    /\ mrPc' = "done"
    /\ UNCHANGED <<repoVars, fetchVars, ghVars, tmVars, call, mrInput>>

NextMapRelease == MapRelease

InitMapReleaseRun ==
    InitRepo /\ InitAcc /\ InitFetchIdle /\ InitGithubIdle /\ InitTemurinIdle
    /\ InitMapRelease /\ InitCallIdle

SpecMapRelease == InitMapReleaseRun /\ [][NextMapRelease]_vars

(***************************************************************************)
(* Properties of the mapping.                                              *)
(***************************************************************************)
\* the vendor's name parser rejects the name
Rejected(vendor, name) ==
    IF vendor = "corretto" THEN ~CorrettoMetaFromName(name).ok
    ELSE ~LibericaMetaFromName(name).ok

\* C14: an asset whose file name the vendor's name parser rejects is skipped:
\* the mapping produces no record for it and the accumulator receives none,
\* and the assets of the release whose names parse still get their record.
C14_RejectedAssetIsSkipped ==
    (mrPc = "done" /\ mrInput.vendor # "") =>
        LET names == [i \in DOMAIN mrInput.assets |-> mrInput.assets[i].name]
            bad == {i \in DOMAIN names : Rejected(mrInput.vendor, names[i])}
        IN  /\ \A e \in Range(mrOut) : e.asset \notin bad
            /\ \A r \in acc : \E i \in DOMAIN names \ bad : r.filename = names[i]
            /\ (mrInput.vendor = "corretto" \/ mrInput.sha1sums) =>
                  \A i \in DOMAIN names \ bad : \E e \in Range(mrOut) : e.asset = i

(***************************************************************************)
(* The features of a record, as each scraper derives them (specification   *)
(* SpecFeatures): one call of a vendor's normalize_features on an input    *)
(* of the sets below; `call` holds the input and the Option<Vec<String>>   *)
(* that becomes the record's `features`.                                   *)
(***************************************************************************)
\* zulu::normalize_features: javafx, crac, musl, pushed in this order
ZuluFeatures(package) ==
    LET features ==
            (IF package.javafx_bundled = Some(TRUE) THEN <<"javafx">> ELSE <<>>)
            \o (IF package.crac_supported = Some(TRUE) THEN <<"crac">> ELSE <<>>)
            \o (IF package.lib_c_type = Some("musl") THEN <<"musl">> ELSE <<>>)
    IN  IF Len(features) = 0 THEN None ELSE Some(features)

\* jetbrains::normalize_features: the tokens found in the lower-cased name,
\* pushed in the order of the tests
JetbrainsFeatures(name) ==
    LET lower == ToLowercase(name)
        features ==
            (IF Contains(lower, "_diz") THEN <<"debug">> ELSE <<>>)
            \o (IF Contains(lower, "jcef") THEN <<"jcef">> ELSE <<>>)
            \o (IF Contains(lower, "-fastdebug") THEN <<"fastdebug">> ELSE <<>>)
            \o (IF Contains(lower, "_fd") THEN <<"jcef", "fastdebug">> ELSE <<>>)
            \o (IF Contains(lower, "_ft") THEN <<"freetype">> ELSE <<>>)
            \o (IF Contains(lower, "musl") THEN <<"musl">> ELSE <<>>)
    IN  IF Len(features) = 0 THEN None ELSE Some(features)

\* temurin::normalize_features
TemurinFeatures(binary) ==
    LET features ==
            (IF binary.heap_size = "large" THEN <<"large_heap">> ELSE <<>>)
            \o (IF binary.os = "alpine-linux" \/ binary.c_lib = Some("musl")
                THEN <<"musl">> ELSE <<>>)
    IN  IF Len(features) = 0 THEN None ELSE Some(features)

\* the packages of the Azul API, by the three fields normalize_features reads
Packages ==
    [javafx_bundled : {None, Some(TRUE), Some(FALSE)},
     crac_supported : {None, Some(TRUE), Some(FALSE)},
     lib_c_type : {None, Some("musl"), Some("glibc")}]

\* the pieces a JetBrains Runtime file name is made of, each present or not
NameTokens == <<"_diz", "_jcef", "-fastdebug", "_fd", "_ft", "-musl">>

RECURSIVE NameOf(_, _)
NameOf(present, i) ==
    IF i > Len(NameTokens) THEN "-linux-x64-b1.tar.gz"
    ELSE (IF i \in present THEN NameTokens[i] ELSE "") \o NameOf(present, i + 1)

JetbrainsNames == {"jbrsdk" \o NameOf(present, 1) : present \in SUBSET DOMAIN NameTokens}

\* the feature part of a Liberica file name: the alternatives of the regex
LibericaInputs ==
    {"", "fx", "lite", "full", "musl", "musl-lite", "crac", "musl-crac", "leyden",
     "musl-leyden", "lite-leyden", "musl-lite-leyden"}

Binaries ==
    [heap_size : {"normal", "large"}, os : {"linux", "alpine-linux", "mac"},
     c_lib : {None, Some("musl"), Some("glibc")}]

NormalizeFeaturesCall(vendor, input) ==
    /\ call.op = "none"
    /\ call' = [op |-> "normalize_features", vendor |-> vendor, input |-> input,
                result |-> CASE vendor = "zulu" -> ZuluFeatures(input)
                             [] vendor = "jetbrains" -> JetbrainsFeatures(input)
                             [] vendor = "liberica" -> LibericaFeatures(input)
                             [] vendor = "temurin" -> TemurinFeatures(input)]
    /\ UNCHANGED <<repoVars, accVars, fetchVars, ghVars, tmVars, mrVars>>

NextFeatures ==
    \/ \E package \in Packages : NormalizeFeaturesCall("zulu", package)
    \/ \E name \in JetbrainsNames : NormalizeFeaturesCall("jetbrains", name)
    \/ \E input \in LibericaInputs : NormalizeFeaturesCall("liberica", input)
    \/ \E binary \in Binaries : NormalizeFeaturesCall("temurin", binary)

SpecFeatures == Init /\ [][NextFeatures]_vars

\* ascending order of a Vec<String>
IsSorted(v) == \A i \in 1..(Len(v) - 1) : ~TextLess(v[i + 1], v[i])

\* C22: a record's features, when present, are listed in sorted (ascending)
\* order, for every vendor and every combination of feature tokens.
C22_FeaturesSorted ==
    (call.op = "normalize_features" /\ ~IsNone(call.result)) => IsSorted(call.result[1])

(***************************************************************************)
(* One fetch_data of a scraper on what its upstream answers (specification *)
(* SpecScrape).  mrInput is the scraper and the upstream list: the         *)
(* releases of the GitHub repository as the API holds them, the releases   *)
(* of the Adoptium API, the packages of the Azul API.  mrOut is the list   *)
(* the scraper maps; the records go to the accumulator.                    *)
(***************************************************************************)
\* length of the upstream list
MaxUpstream == 2

GetName_Community(scraper) ==
    CASE scraper = "Temurin" -> "temurin"
      [] scraper = "Zulu" -> "zulu"
      [] scraper = "Jetbrains" -> "jetbrains"
      [] scraper = "SAPMachine" -> "sapmachine"
      [] scraper = "Liberica" -> "liberica"
      [] scraper = "GraalVM" -> "graalvm-community"

\* Vendor::get_name of the scrapers modelled here
GetName(scraper) ==
    CASE scraper = "Temurin" -> "temurin"
      [] scraper = "Zulu" -> "zulu"
      [] scraper = "Jetbrains" -> "jetbrains"
      [] scraper = "SAPMachine" -> "sapmachine"
      [] scraper = "Liberica" -> "liberica"
      [] scraper = "GraalVM" -> "graalvm"

GithubScrapers == {"Jetbrains", "SAPMachine", "Liberica", "GraalVM"}

\* get_extension: `^.*\.(apk|deb|dmg|msi|pkg|rpm|tar\.gz|zip)$` replaced by its
\* group; a name the expression does not match is returned as it is
GetExtension(package_name) ==
    LET extensions == {"apk", "deb", "dmg", "msi", "pkg", "rpm", "tar.gz", "zip"}
        found == {e \in extensions : EndsWith(package_name, "." \o e)}
    IN  IF found = {} THEN package_name ELSE CHOOSE e \in found : TRUE

\* temurin::map_release: a record for every binary of the release
TemurinMapRelease(release) ==
    [i \in DOMAIN release.binaries |->
        LET binary == release.binaries[i]
            package == binary.package
        IN  [architecture |-> NormalizeArchitecture(binary.architecture),
             checksum |-> IF IsNone(package) \/ IsNone(package[1].checksum) THEN None
                          ELSE Some("sha256:" \o package[1].checksum[1]),
             checksum_url |-> IF IsNone(package) THEN None ELSE package[1].checksum_link,
             image_type |-> binary.image_type,
             features |-> TemurinFeatures(binary),
             file_type |-> IF IsNone(package) THEN "" ELSE GetExtension(package[1].name),
             filename |-> IF IsNone(package) THEN "" ELSE package[1].name,
             java_version |-> release.version_data.openjdk_version,
             jvm_impl |-> binary.jvm_impl,
             os |-> NormalizeOs(binary.os),
             size |-> Some(IF IsNone(package) THEN 0 ELSE package[1].size),
             release_type |-> release.release_type,
             url |-> IF IsNone(package) THEN "" ELSE package[1].link,
             vendor |-> "temurin",
             version |-> NormalizeVersion(release.version_data.semver)]]

\* zulu::arch_from_name: the regular expression on the names of ZuluNames
ZuluArchFromName(name) ==
    IF name = "zulu11.1.8-ca-jdk11.0.0-linux_aarch64.tar.gz"
    THEN [ok |-> TRUE, arch |-> "aarch64"]
    ELSE [ok |-> FALSE]

\* Itertools::join(".") of the numbers of a version
RECURSIVE JoinDots(_)
JoinDots(v) ==
    IF Len(v) = 0 THEN ""
    ELSE IF Len(v) = 1 THEN ToString(v[1])
    ELSE ToString(v[1]) \o "." \o JoinDots(Tail(v))

\* zulu::map_packages: a record for every package
ZuluMapPackages(packages) ==
    [i \in DOMAIN packages |->
        LET package == packages[i]
            parsed == ZuluArchFromName(package.name)
            arch == IF parsed.ok THEN parsed.arch ELSE package.arch
        IN  [Default EXCEPT
               !.architecture = NormalizeArchitecture(arch),
               !.checksum = Some("sha256:" \o package.sha256_hash),
               !.file_type = package.archive_type,
               !.features = ZuluFeatures(package),
               !.filename = package.name,
               !.image_type = package.java_package_type,
               !.java_version = JoinDots(package.java_version),
               !.jvm_impl = "hotspot",
               !.os = NormalizeOs(package.os),
               !.release_type = package.release_status,
               !.size = Some(package.size),
               !.url = package.download_url,
               !.vendor = "zulu",
               !.version = NormalizeVersion(JoinDots(package.distro_version))]]

\* jetbrains::meta_from_name: the regular expression on JetbrainsAssets
JetbrainsMetaFromName(name) ==
    CASE name = "jbrsdk-21.0.5-osx-aarch64-b792.48_diz.tar.gz" ->
            [ok |-> TRUE,
             meta |-> [arch |-> "aarch64", ext |-> "tar.gz", image_type |-> "jdk",
                       os |-> "osx", version |-> "21.0.5-b792.48"]]
      [] name = "jbr_fd-17.0.4.1-linux-aarch64-b629.2.tar.gz" ->
            [ok |-> TRUE,
             meta |-> [arch |-> "aarch64", ext |-> "tar.gz", image_type |-> "jre",
                       os |-> "linux", version |-> "17.0.4.1-b629.2"]]
      [] OTHER -> [ok |-> FALSE]

\* jetbrains::map_release: the record of one link of the release's table
JetbrainsMapRelease(release, a) ==
    LET href == a.browser_download_url
        parts == SplitOn(href, "/", "")
        name == parts[Len(parts)]
        parsed == JetbrainsMetaFromName(name)
    IN  IF ~parsed.ok THEN [ok |-> FALSE]
        ELSE [ok |-> TRUE,
              rec |-> [Default EXCEPT
                         !.architecture = NormalizeArchitecture(parsed.meta.arch),
                         !.checksum = IF release.sha1sums THEN Some("sha512:" \o "cf83e135")
                                      ELSE None,
                         !.checksum_url = Some(href \o ".checksum"),
                         !.features = JetbrainsFeatures(name),
                         !.filename = name,
                         !.file_type = parsed.meta.ext,
                         !.image_type = parsed.meta.image_type,
                         !.java_version = NormalizeVersion(parsed.meta.version),
                         !.jvm_impl = "hotspot",
                         !.os = NormalizeOs(parsed.meta.os),
                         !.release_type = IF release.prerelease THEN "ea" ELSE "ga",
                         !.url = href,
                         !.version = NormalizeVersion(parsed.meta.version),
                         !.vendor = "jetbrains"]]

\* sapmachine::meta_from_name: the regular expressions on SapmachineAssets
SapmachineMetaFromName(name) ==
    CASE name = "sapmachine-jdk-21.0.4_windows-x64_bin.zip" ->
            [ok |-> TRUE,
             meta |-> [arch |-> "x64", ext |-> "zip", features |-> "",
                       image_type |-> "jdk", os |-> "windows", version |-> "21.0.4"]]
      [] name = "sapmachine-jdk-23_linux-aarch64_bin.tar.gz" ->
            [ok |-> TRUE,
             meta |-> [arch |-> "aarch64", ext |-> "tar.gz", features |-> "",
                       image_type |-> "jdk", os |-> "linux", version |-> "23"]]
      [] OTHER -> [ok |-> FALSE]

\* sapmachine::get_sha256_url; on the names here ".tar.gz" and ".zip" occur
\* once, at the end, and str::replace removes them there
GetSha256Url(asset) ==
    LET url == asset.browser_download_url
        cut(n) == SubSeq(url, 1, Len(url) - n)
    IN  CASE EndsWith(asset.name, ".tar.gz") -> Some(cut(7) \o ".sha256.txt")
          [] EndsWith(asset.name, ".zip") -> Some(cut(4) \o ".sha256.txt")
          [] EndsWith(asset.name, ".rpm") -> None
          [] EndsWith(asset.name, ".dmg") \/ EndsWith(asset.name, ".msi") -> None
          [] OTHER -> Some(url \o ".sha256.txt")

\* sapmachine::include
SapmachineInclude(asset) ==
    /\ StartsWith(asset.content_type, "application")
    /\ ~Contains(asset.name, "symbols")
    /\ ~EndsWith(asset.name, ".sha256.txt")

\* sapmachine::map_asset
SapmachineMapAsset(release, asset) ==
    LET sha256_url == GetSha256Url(asset)
        parsed == SapmachineMetaFromName(asset.name)
    IN  IF ~parsed.ok THEN [ok |-> FALSE]
        ELSE [ok |-> TRUE,
              rec |-> [Default EXCEPT
                         !.architecture = NormalizeArchitecture(parsed.meta.arch),
                         !.checksum = IF ~IsNone(sha256_url) /\ release.sha1sums
                                      THEN Some("sha256:" \o "e3b0c442") ELSE None,
                         !.checksum_url = sha256_url,
                         !.features = IF parsed.meta.features = "" THEN None
                                      ELSE Some(<<parsed.meta.features>>),
                         !.filename = asset.name,
                         !.file_type = parsed.meta.ext,
                         !.image_type = parsed.meta.image_type,
                         !.java_version = NormalizeVersion(parsed.meta.version),
                         !.jvm_impl = "hotspot",
                         !.os = NormalizeOs(parsed.meta.os),
                         !.release_type = IF release.prerelease THEN "ea" ELSE "ga",
                         !.url = asset.browser_download_url,
                         !.vendor = "sapmachine",
                         !.version = NormalizeVersion(parsed.meta.version)]]

\* graalvm::map_asset with map_ce and map_community; the regular expressions
\* of meta_from_name_ce and meta_from_name_community on GraalvmAssets
GraalvmMapAsset(release, asset) ==
    LET sha256_url == asset.browser_download_url \o ".sha256"
        sha256 == IF release.sha1sums THEN Some("sha256:" \o "e3b0c442") ELSE None
        common == [Default EXCEPT
                     !.checksum = sha256,
                     !.checksum_url = Some(sha256_url),
                     !.filename = asset.name,
                     !.file_type = "tar.gz",
                     !.image_type = "jdk",
                     !.jvm_impl = "graalvm",
                     !.release_type = "ga",
                     !.url = asset.browser_download_url]
    IN  CASE asset.name = "graalvm-ce-java17-linux-amd64-22.3.3.tar.gz" ->
                [ok |-> TRUE,
                 rec |-> [common EXCEPT
                            !.architecture = NormalizeArchitecture("amd64"),
                            !.java_version = "17",
                            !.os = NormalizeOs("linux"),
                            !.vendor = "graalvm",
                            !.version = NormalizeVersion("22.3.3") \o "+java" \o "17"]]
          [] asset.name = "graalvm-community-jdk-21.0.2_linux-x64_bin.tar.gz" ->
                [ok |-> TRUE,
                 rec |-> [common EXCEPT
                            !.architecture = NormalizeArchitecture("x64"),
                            !.java_version = NormalizeVersion("21.0.2"),
                            !.os = NormalizeOs("linux"),
                            !.vendor = "graalvm-community",
                            !.version = NormalizeVersion("21.0.2")]]
          [] OTHER -> [ok |-> FALSE]

\* graalvm::include
GraalvmInclude(asset) ==
    /\ StartsWith(asset.name, "graalvm-ce") \/ StartsWith(asset.name, "graalvm-community")
    /\ EndsWith(asset.name, ".tar.gz") \/ EndsWith(asset.name, ".zip")

\* map_release of a GitHub scraper, and the closure of fetch_data around it:
\* the records of the assets that are included and map; an error is no record
MapReleaseOf(scraper, release) ==
    LET mapped(asset) ==
            CASE scraper = "Jetbrains" -> JetbrainsMapRelease(release, asset)
              [] scraper = "SAPMachine" ->
                    IF SapmachineInclude(asset) THEN SapmachineMapAsset(release, asset)
                    ELSE [ok |-> FALSE]
              [] scraper = "GraalVM" ->
                    IF GraalvmInclude(asset) THEN GraalvmMapAsset(release, asset)
                    ELSE [ok |-> FALSE]
        all == [i \in DOMAIN release.assets |-> mapped(release.assets[i])]
        kept == SelectSeq(all, LAMBDA m : m.ok)
    IN  IF scraper = "Liberica"
        THEN LET out == LibericaMapRelease(release).out
             IN  [i \in DOMAIN out |-> out[i].rec]
        ELSE [i \in DOMAIN kept |-> kept[i].rec]

\* flat_map over the releases, in their order
RECURSIVE FlatMapReleases(_, _)
FlatMapReleases(scraper, releases) ==
    IF Len(releases) = 0 THEN <<>>
    ELSE MapReleaseOf(scraper, Head(releases)) \o FlatMapReleases(scraper, Tail(releases))

\* the file names of a repository's assets: two the scraper's expression
\* matches and one it does not
AssetsOf(scraper) ==
    CASE scraper = "Jetbrains" ->
            {"jbrsdk-21.0.5-osx-aarch64-b792.48_diz.tar.gz",
             "jbr_fd-17.0.4.1-linux-aarch64-b629.2.tar.gz", "sources.zip"}
      [] scraper = "SAPMachine" ->
            {"sapmachine-jdk-21.0.4_windows-x64_bin.zip",
             "sapmachine-jdk-23_linux-aarch64_bin.tar.gz",
             "sapmachine-jdk-23_linux-aarch64_bin.sha256.txt"}
      [] scraper = "Liberica" ->
            {"bellsoft-jre22.0.1+10-macos-aarch64.dmg",
             "bellsoft-jdk11.0.11+9-linux-aarch64-musl-lite.tar.gz", "README.md"}
      [] scraper = "GraalVM" ->
            {"graalvm-ce-java17-linux-amd64-22.3.3.tar.gz",
             "graalvm-community-jdk-21.0.2_linux-x64_bin.tar.gz", "README.md"}

\* the i-th release of a repository: one asset under the release's own path;
\* the checksum files of the odd releases can be fetched, the others not
GithubReleases(scraper, i) ==
    {[tag_name |-> ToString(i), draft |-> draft, prerelease |-> prerelease,
      sha1sums |-> (i % 2 = 1),
      assets |-> <<[Asset(name) EXCEPT
                      !.browser_download_url =
                          "https://dl.example/" \o ToString(i) \o "/" \o name]>>] :
        draft \in BOOLEAN, prerelease \in BOOLEAN, name \in AssetsOf(scraper)}

\* the i-th release of the Adoptium API, with one binary
TemurinReleases(i) ==
    {[release_type |-> release_type,
      version_data |-> [openjdk_version |-> "21.0.1+12-LTS", semver |-> "21.0.1+12"],
      binaries |-> <<[architecture |-> "x64", image_type |-> image_type,
                      jvm_impl |-> jvm_impl, os |-> "linux", heap_size |-> "normal",
                      c_lib |-> None,
                      package |-> Some([name |-> "OpenJDK21U-" \o image_type \o ".tar.gz",
                                        link |-> "https://adoptium.example/" \o ToString(i)
                                                 \o "/" \o image_type \o ".tar.gz",
                                        checksum |-> Some("e3b0c442"),
                                        checksum_link |-> None, size |-> 100])]>>] :
        release_type \in {"ga", "ea"}, image_type \in {"jdk", "sbom"},
        jvm_impl \in {"hotspot", "openj9", "dragonwell"}}

ZuluNames == {"zulu11.1.8-ca-jdk11.0.0-linux_aarch64.tar.gz",
              "zulu1.8.0_66-8.11.0.1-macosx.tar.gz"}

\* the i-th package of the Azul API
ZuluPackages(i) ==
    {[arch |-> "x86", archive_type |-> "tar.gz", crac_supported |-> None,
      distro_version |-> <<11, 1, 8>>,
      download_url |-> "https://cdn.azul.example/" \o ToString(i) \o "/" \o name,
      javafx_bundled |-> None, java_package_type |-> "jdk", java_version |-> <<11, 0, 0>>,
      lib_c_type |-> None, name |-> name, os |-> "linux",
      release_status |-> release_status, sha256_hash |-> "e3b0c442", size |-> 100] :
        name \in ZuluNames, release_status \in {"ga", "ea", "rc"}}

\* the upstream lists of a scraper
Upstreams(scraper) ==
    LET at(i) == CASE scraper = "Temurin" -> TemurinReleases(i)
                   [] scraper = "Zulu" -> ZuluPackages(i)
                   [] OTHER -> GithubReleases(scraper, i)
        RECURSIVE lists(_)
        lists(n) == IF n = 0 THEN {<<>>}
                    ELSE {Append(u, x) : u \in lists(n - 1), x \in at(n)}
    IN  UNION {lists(n) : n \in 0..MaxUpstream}

InitScrape ==
    /\ \E scraper \in GithubScrapers \cup {"Temurin", "Zulu"} :
          \E upstream \in Upstreams(scraper) :
              mrInput = [vendor |-> scraper, upstream |-> upstream]
    /\ mrPc = "start"
    /\ mrOut = <<>>

\* github::list_releases(repo)?: the releases that pass retain, or the error
ListReleases(ok) ==
    /\ mrPc = "start"
    /\ mrInput.vendor \in GithubScrapers
    /\ IF ok
       THEN mrPc' = "listed" /\ mrOut' = Retain(mrInput.upstream)
       ELSE mrPc' = "error" /\ mrOut' = mrOut
    /\ UNCHANGED <<repoVars, accVars, fetchVars, ghVars, tmVars, call, mrInput>>

\* the rest of fetch_data of a GitHub scraper: flat_map, extend, Ok(())
MapReleases ==
    /\ mrPc = "listed"
    /\ LET data == FlatMapReleases(mrInput.vendor, mrOut)
       IN  /\ acc' = HashSetExtend(acc, data)
           /\ history' = history \o data
    /\ mrPc' = "done"
    /\ UNCHANGED <<repoVars, fetchVars, ghVars, tmVars, call, mrInput, mrOut>>

\* fetch_data of Temurin and of Zulu on the answers of their API: the records
\* of every release without the sbom images, of every package; extend, Ok(())
MapAnswers ==
    /\ mrPc = "start"
    /\ mrInput.vendor \in {"Temurin", "Zulu"}
    /\ LET upstream == mrInput.upstream
           RECURSIVE releases(_)
           releases(i) ==
               IF i > Len(upstream) THEN <<>>
               ELSE SelectSeq(TemurinMapRelease(upstream[i]),
                              LAMBDA m : m.image_type # "sbom") \o releases(i + 1)
           data == IF mrInput.vendor = "Temurin" THEN releases(1)
                   ELSE ZuluMapPackages(upstream)
       IN  /\ acc' = HashSetExtend(acc, data)
           /\ history' = history \o data
    /\ mrOut' = mrInput.upstream
    /\ mrPc' = "done"
    /\ UNCHANGED <<repoVars, fetchVars, ghVars, tmVars, call, mrInput>>

NextScrape ==
    \/ \E ok \in BOOLEAN : ListReleases(ok)
    \/ MapReleases
    \/ MapAnswers

InitScrapeRun ==
    InitRepo /\ InitAcc /\ InitFetchIdle /\ InitGithubIdle /\ InitTemurinIdle
    /\ InitScrape /\ InitCallIdle

SpecScrape == InitScrapeRun /\ [][NextScrape]_vars

(***************************************************************************)
(* Properties of the scrapers.                                             *)
(***************************************************************************)
\* C23: every record a scraper inserts into the accumulator has release_type
\* in {ga, ea} and jvm_impl in {hotspot, openj9, graalvm}, whatever values
\* the upstream supplies.
C23_VocabularyClosure ==
    \A r \in acc :
        /\ r.release_type \in {"ga", "ea"}
        /\ r.jvm_impl \in {"hotspot", "openj9", "graalvm"}

(***************************************************************************)
(* The HTTP client, src/http.rs (specification SpecHttp): a sequence of    *)
(* calls of Client::get, Client::get_json and Client::get_text in one      *)
(* process.  `call` holds the value of GITHUB_TOKEN in the environment and *)
(* the requests sent so far, each with its headers.                        *)
(***************************************************************************)
\* number of requests of a behaviour
MaxRequests == 2

\* position of the first character of s from position i on that is in
\* stops, Len(s) + 1 when there is none
RECURSIVE Find(_, _, _)
Find(s, i, stops) ==
    IF i > Len(s) \/ Char(s, i) \in stops THEN i ELSE Find(s, i + 1, stops)

\* position of the last "@" of s, 0 when there is none
RECURSIVE LastAt(_, _)
LastAt(s, i) == IF i = 0 \/ Char(s, i) = "@" THEN i ELSE LastAt(s, i - 1)

\* IntoUrl::into_url and Url::host_str for http and https: the authority is
\* the text between "://" and the first "/", "?" or "#"; the host is the
\* authority without the user information and the port, in lower case
IntoUrl(text) ==
    LET scheme == IF StartsWith(text, "https://") THEN 8
                  ELSE IF StartsWith(text, "http://") THEN 7 ELSE 0
        end == Find(text, scheme + 1, {"/", "?", "#"})
        authority == SubSeq(text, scheme + 1, end - 1)
        hostport == SubSeq(authority, LastAt(authority, Len(authority)) + 1, Len(authority))
        host == SubSeq(hostport, 1, Find(hostport, 1, {":"}) - 1)
    IN  IF scheme = 0 \/ host = "" THEN [ok |-> FALSE]
        ELSE [ok |-> TRUE, text |-> text, host_str |-> Some(ToLowercase(host))]

WithGithubAuth_AnyMention(url, req, token) ==
    IF Contains(url.text, "api.github.com") /\ ~IsNone(token)
    THEN [req EXCEPT !.headers = @ \cup {<<"authorization", "token " \o token[1]>>,
                                          <<"x-github-api-version", "2022-11-28">>}]
    ELSE req

\* with_github_auth; token is std::env::var("GITHUB_TOKEN").ok()
WithGithubAuth(url, req, token) ==
    IF url.host_str = Some("api.github.com") /\ ~IsNone(token)
    THEN [req EXCEPT !.headers = @ \cup {<<"authorization", "token " \o token[1]>>,
                                          <<"x-github-api-version", "2022-11-28">>}]
    ELSE req

\* the request builder of self.reqwest.get(url)
RequestBuilder(operation, url) ==
    [operation |-> operation, url |-> url.text,
     headers |-> {<<"user-agent", "mise-java">>}]

\* the values of GITHUB_TOKEN: not set, or set to a text
Tokens == {None, Some("ghp_a1"), Some("ghp_b2")}

\* the urls the scrapers request: the first page of a repository's releases,
\* a next page taken from a link header, download and checksum urls, urls
\* on hosts whose name or path mentions the API host, and a text that is no url
Urls ==
    {"https://api.github.com/repos/SAP/SapMachine/releases?per_page=100",
     "https://API.GitHub.com:443/repositories/1/releases?per_page=100&page=2",
     "https://github.com/SAP/SapMachine/releases/download/x.tar.gz",
     "https://api.azul.com/metadata/v1/zulu/packages",
     "https://api.github.com.dl.example/releases?page=2",
     "https://dl.example/api.github.com/releases?page=2",
     "https://api.github.com@dl.example/releases?page=2",
     "releases?page=2"}

\* what the process has sent: the environment of the process is fixed when
\* it starts
Sent == IF call.op = "http" THEN call.sent ELSE <<>>

\* Client::get, Client::get_json, Client::get_json_with_headers (authorized)
\* and Client::get_text (not authorized), up to req.send()
Request(operation, text, token) ==
    /\ call.op \in {"none", "http"}
    /\ call.op = "http" => token = call.token
    /\ Len(Sent) < MaxRequests
    /\ LET url == IntoUrl(text)
           req == IF ~url.ok THEN <<>>
                  ELSE IF operation = "get_text" THEN <<RequestBuilder(operation, url)>>
                  ELSE <<WithGithubAuth(url, RequestBuilder(operation, url), token)>>
       IN  call' = [op |-> "http", token |-> token, sent |-> Sent \o req,
                    last |-> [operation |-> operation, url |-> text]]
    /\ UNCHANGED <<repoVars, accVars, fetchVars, ghVars, tmVars, mrVars>>

NextHttp ==
    \E operation \in {"get", "get_json", "get_text"} : \E text \in Urls :
        \E token \in Tokens : Request(operation, text, token)

SpecHttp == Init /\ [][NextHttp]_vars

\* the host of a request, read off its url: the text after "://" up to the
\* first "/", without a port, compared without regard to case
HostIsGithubApi(text) ==
    \E rest \in {"", ":443"} :
        \E i \in 1..Len(text) :
            /\ Char(text, i) \in {"/", "?"}
            /\ \A j \in 9..(i - 1) : Char(text, j) \notin {"/", "?", "@"}
            /\ ToLowercase(SubSeq(text, 1, i - 1)) = "https://api.github.com" \o rest

HeaderValues(req, name) == {h[2] : h \in {x \in req.headers : x[1] = name}}

\* C24: a request of get or get_json carries the GitHub token (authorization:
\* token <value>, with x-github-api-version: 2022-11-28) if and only if its
\* host is api.github.com and GITHUB_TOKEN is set; no request to another host
\* carries the token, a next-page url of a link header included.
C24_TokenOnlyToGithubApi ==
    call.op = "http" =>
        \A i \in DOMAIN call.sent :
            LET req == call.sent[i]
                authorized == HostIsGithubApi(req.url) /\ ~IsNone(call.token)
            IN  /\ req.operation \in {"get", "get_json"} =>
                      /\ authorized =>
                            /\ HeaderValues(req, "authorization") = {"token " \o call.token[1]}
                            /\ HeaderValues(req, "x-github-api-version") = {"2022-11-28"}
                      /\ ~authorized => HeaderValues(req, "authorization") = {}
                /\ ~HostIsGithubApi(req.url) =>
                      \A h \in req.headers : ~IsNone(call.token) => ~Contains(h[2], call.token[1])

\* C24 witness: with GITHUB_TOKEN set, a request to api.github.com was sent
\* with the token and a request to a host whose name only begins with
\* api.github.com was sent without it.
C24_Witness ==
    /\ call.op = "http"
    /\ ~IsNone(call.token)
    /\ \E i, j \in DOMAIN call.sent :
          /\ call.sent[i].url = "https://api.github.com/repos/SAP/SapMachine/releases?per_page=100"
          /\ HeaderValues(call.sent[i], "authorization") # {}
          /\ call.sent[j].url = "https://api.github.com.dl.example/releases?page=2"
          /\ call.sent[j].operation = "get_json"
          /\ HeaderValues(call.sent[j], "authorization") = {}

(***************************************************************************)
(* The worker pool of the scheduler (specification SpecFetch).             *)
(***************************************************************************)
\* std::thread::available_parallelism() of the machine of the model, the
\* default size of the pool
AvailableParallelism == 2

\* C25: the number of vendor workers running at the same time never exceeds
\* the size of the worker pool, however many vendors are selected.
C25_WorkersWithinPool == Cardinality(Running) <= AvailableParallelism

(***************************************************************************)
(* Properties of the scrapers (specification SpecScrape), continued.       *)
(***************************************************************************)
\* C26: a scraper that derives release_type from the prerelease flag
\* (Jetbrains, SAPMachine, Liberica) receives the prerelease releases of its
\* repository and emits their artifacts with release_type ea.
C26_PrereleasesReachScraper ==
    (mrPc = "done" /\ mrInput.vendor \in {"Jetbrains", "SAPMachine", "Liberica"}) =>
        \A i \in DOMAIN mrInput.upstream :
            LET release == mrInput.upstream[i]
                artifacts == MapReleaseOf(mrInput.vendor, release)
            IN  (release.prerelease /\ ~release.draft) =>
                    /\ \E j \in DOMAIN mrOut : mrOut[j] = release
                    /\ \A k \in DOMAIN artifacts :
                          \E r \in acc : r.url = artifacts[k].url /\ r.release_type = "ea"

\* C30: every record a vendor's fetch_data inserts into the accumulator has
\* its vendor field equal to that vendor's get_name().
C30_VendorFieldIsName ==
    mrPc = "done" => \A r \in acc : r.vendor = GetName(mrInput.vendor)

\* C30 (amended): every record a vendor's fetch_data inserts has its vendor
\* field equal to that vendor's get_name(), except that GraalVM's fetch_data
\* gives the records of its graalvm-community-* assets, and only those, the
\* vendor graalvm-community.
C30_VendorFieldIsNameOrCommunity ==
    mrPc = "done" =>
        \A r \in acc :
            IF mrInput.vendor = "GraalVM" /\ StartsWith(r.filename, "graalvm-community")
            THEN r.vendor = "graalvm-community"
            ELSE r.vendor = GetName(mrInput.vendor)

\* C30 witness: GraalVM's fetch_data has inserted a record of a graalvm-ce
\* asset and a record of a graalvm-community asset.
C30_Witness ==
    /\ mrPc = "done"
    /\ mrInput.vendor = "GraalVM"
    /\ \E r \in acc : r.vendor = "graalvm" /\ StartsWith(r.filename, "graalvm-ce")
    /\ \E r \in acc : r.vendor = "graalvm-community"

(***************************************************************************)
(* Zulu::fetch_data: the page loop over api.azul.com, then map_packages.   *)
(***************************************************************************)
\* pages Zulu requests in one behaviour
MaxZuluPages == 2

\* what api.azul.com can answer to the request of a page
ZuluResponses(page) ==
    {[ok |-> TRUE, body |-> <<>>], [ok |-> FALSE, body |-> <<>>]}
        \cup {[ok |-> TRUE, body |-> <<p>>] : p \in ZuluPackages(page)}

\* Zulu::fetch_data is called
InitZulu ==
    /\ zuPc = "paging"
    /\ zuPage = 1
    /\ zuPackages = <<>>
    /\ zuLog = <<>>

\* one iteration of the loop: `Ok(packages)` extends all_packages and goes to
\* the next page, `Err(_) => break`
FetchZuluPage(resp) ==
    /\ zuPc = "paging"
    /\ zuPage <= MaxZuluPages
    /\ zuLog' = Append(zuLog, ResponseKind(resp))
    /\ IF resp.ok
       THEN /\ zuPackages' = zuPackages \o resp.body
            /\ zuPage' = zuPage + 1
            /\ zuPc' = zuPc
       ELSE /\ zuPc' = "mapping"
            /\ UNCHANGED <<zuPage, zuPackages>>
    /\ UNCHANGED <<repoVars, accVars, fetchVars, ghVars, mrVars, call, tmPc, tmLoop,
                   tmPage, tmData, tmLog>>

\* `jvm_data.extend(map_packages(all_packages)?)`, Ok(()): map_packages has
\* no failing path
ZuluCollect ==
    /\ zuPc = "mapping"
    /\ acc' = HashSetExtend(acc, ZuluMapPackages(zuPackages))
    /\ history' = history \o ZuluMapPackages(zuPackages)
    /\ zuPc' = "done"
    /\ UNCHANGED <<repoVars, fetchVars, ghVars, mrVars, call, tmPc, tmLoop, tmPage,
                   tmData, tmLog, zuPage, zuPackages, zuLog>>

NextZulu ==
    \/ \E resp \in ZuluResponses(zuPage) : FetchZuluPage(resp)
    \/ ZuluCollect

\* one paginated vendor's fetch_data is run on an empty accumulator
InitPaging ==
    /\ InitRepo /\ InitAcc /\ InitFetchIdle /\ InitGithubIdle /\ InitMapIdle
    /\ InitCallIdle
    /\ \/ InitTemurin
       \/ /\ tmPc = "start"
          /\ tmLoop = <<>>
          /\ tmPage = <<>>
          /\ tmData = <<>>
          /\ tmLog = <<>>
          /\ InitZulu

NextPaging ==
    \/ zuPc = "idle" /\ NextTemurin
    \/ NextZulu

SpecPaging == InitPaging /\ [][NextPaging]_vars

\* the accumulator holds a record under the url of m
Holds(m) == \E a \in acc : a.url = m.url

\* C27: a failed page request ends only the page loop it belongs to (a loop
\* of Temurin is over only when its own last request failed), the vendor's
\* fetch_data then returns Ok and never the error of a page request, and the
\* accumulator holds the records of every page answered before the failure.
C27_PageFailureKeepsEarlierPages ==
    /\ \A r \in DOMAIN tmLoop :
          tmLoop[r] = "done" => Len(tmLog[r]) > 0 /\ tmLog[r][Len(tmLog[r])] = "error"
    /\ tmPc = "error" => \A r \in DOMAIN tmLog : tmLog[r] = <<>>
    /\ tmPc = "done" =>
          \A r \in DOMAIN tmData : \A i \in DOMAIN tmData[r] : Holds(tmData[r][i])
    /\ zuPc \in {"idle", "paging", "mapping", "done"}
    /\ zuPc \in {"mapping", "done"} => Len(zuLog) > 0 /\ zuLog[Len(zuLog)] = "error"
    /\ zuPc = "done" =>
          \A i \in DOMAIN zuPackages : Holds(ZuluMapPackages(zuPackages)[i])

\* Temurin returned Ok although the first page of one feature release failed,
\* and the accumulator holds the records of another release's pages
C27_Witness ==
    /\ tmPc = "done"
    /\ \E r \in DOMAIN tmLog, q \in DOMAIN tmLog :
          /\ tmLog[r] = <<"error">>
          /\ tmLog[q] = <<"full", "error">>
          /\ Len(tmData[q]) > 0
          /\ \A i \in DOMAIN tmData[q] : tmData[q][i] \in acc

(***************************************************************************)
(* The accumulator and the order of insertion (specification SpecAcc).     *)
(***************************************************************************)
\* the records of `data` in the order p, a permutation of its indices
Reordered(data, p) == [i \in DOMAIN data |-> data[p[i]]]

\* C28: the accumulator does not depend on the order of insertion: the
\* records offered so far, inserted in any other order, give the accumulator
\* the same records, field for field.
C28_OrderIndependent ==
    \A p \in Orders(DOMAIN history) :
        HashSetExtend({}, Reordered(history, p)) = acc

(***************************************************************************)
(* The sets of the accumulator as arguments of JvmRepository::insert       *)
(* (specification Spec).                                                   *)
(***************************************************************************)
\* nothing outside the batch fails: the connection, every statement and the
\* commit are served
NoFailure == [at |-> "none", n |-> 0]

\* C29: insert accepts every set the accumulator can hold: the records of a
\* call, pairwise different in url, have pairwise different unique keys, and
\* in whatever order the set is iterated the call succeeds unless something
\* outside the set fails.
C29_InsertAcceptsAccumulatorSets ==
    last.called =>
        /\ DistinctKeys(last.batch)
        /\ \A v \in Orders(last.batch) :
              InsertCall(last.pre, MapWorkaround(v), last.now, NoFailure).result.ok

====
